---- MODULE Spec2Model ----
(***************************************************************************)
(* A model of glenv's reconciliation engine: the classifier, the scope     *)
(* filter, Engine.Diff and the worker pool of Engine.ApplyWithCallback.     *)
(*                                                                         *)
(* Keys and values are sequences of one-character strings, so that length  *)
(* and substring tests are computed as the Go code computes them.  Scopes  *)
(* and variable types are only ever compared for equality and are plain    *)
(* strings.                                                                 *)
(***************************************************************************)
EXTENDS Integers, Sequences, FiniteSets, TLC

VARIABLES
    local,        \* []envfile.Variable handed to Diff
    remote,       \* []gitlab.Variable handed to Diff (the listing of the store)
    envScope,     \* target environment scope
    opts,         \* Engine.opts: Workers, DryRun, DeleteMissing
    cfg,          \* classification settings: user rules, --no-auto-classify
    store,        \* records currently held by the remote store
    diff,         \* DiffResult.Changes
    pc,           \* position of the calling goroutine
    ctxDone,      \* ctx.Err() != nil
    report,       \* SyncReport being built by ApplyWithCallback
    actionable,   \* indices (into diff) of the changes sent through the pool
    taskCh,       \* buffered task channel (closed once filled)
    resultCh,     \* buffered result channel
    resultClosed, \* close(resultCh) has happened
    wg,           \* sync.WaitGroup counter
    wk,           \* per worker goroutine: position, task held, result held
    calls,        \* per change index: client calls issued for it, with their outcome
    late,         \* indices of the tasks received after the context was cancelled
    cb,           \* the callback handed to ApplyWithCallback, with its invocations
    cmd,          \* SyncCommand: --force, and standard input as the scanner reads it
    do,           \* one call of Client.Do: configuration, position, attempts
    list,         \* one call of Client.ListVariables: position, pages, result
    fn            \* one application of a pure function: arguments and result

\* The variables of a sync run (Diff and Apply).
syncVars == <<local, remote, envScope, opts, cfg, store, diff, pc, ctxDone,
              report, actionable, taskCh, resultCh, resultClosed, wg, wk, calls,
              late, cb, cmd>>

vars == <<syncVars, do, list, fn>>

----------------------------------------------------------------------------
(* Bounds of the model. *)

MaxLocal == 2
MaxRemote == 2
MaxWorkers == 2
MaxChanges == 2

----------------------------------------------------------------------------
(* Strings. *)

LowerLetters ==
    <<"a","b","c","d","e","f","g","h","i","j","k","l","m",
      "n","o","p","q","r","s","t","u","v","w","x","y","z">>

UpperLetters ==
    <<"A","B","C","D","E","F","G","H","I","J","K","L","M",
      "N","O","P","Q","R","S","T","U","V","W","X","Y","Z">>

Digits == {"0","1","2","3","4","5","6","7","8","9"}

Range(s) == {s[i] : i \in DOMAIN s}

\* strings.ToUpper on one character
UpperChar(c) ==
    IF \E i \in DOMAIN LowerLetters : LowerLetters[i] = c
    THEN UpperLetters[CHOOSE i \in DOMAIN LowerLetters : LowerLetters[i] = c]
    ELSE c

ToUpper(s) == [i \in DOMAIN s |-> UpperChar(s[i])]

\* strings.Contains
Contains(s, sub) ==
    \E i \in 0..(Len(s) - Len(sub)) : SubSeq(s, i + 1, i + Len(sub)) = sub

----------------------------------------------------------------------------
(* pkg/classifier *)

builtinMaskedPatterns ==
    << <<"_","T","O","K","E","N">>, <<"S","E","C","R","E","T">>,
       <<"P","A","S","S","W","O","R","D">>, <<"A","P","I","_","K","E","Y">>,
       <<"D","S","N">> >>

builtinMaskedExclude ==
    << <<"M","A","X","_","T","O","K","E","N","S">>, <<"T","I","M","E","O","U","T">>,
       <<"P","O","R","T">> >>

builtinFilePatterns ==
    << <<"P","R","I","V","A","T","E","_","K","E","Y">>, <<"_","C","E","R","T">>,
       <<"_","P","E","M">> >>

builtinFileExclude ==
    << <<"_","P","A","T","H">>, <<"_","D","I","R">>, <<"_","U","R","L">> >>

PEMHeader == <<"-","-","-","-","-","B","E","G","I","N">>

NoRules ==
    [MaskedPatterns |-> <<>>, MaskedExclude |-> <<>>,
     FilePatterns |-> <<>>, FileExclude |-> <<>>]

toUpper(ss) == [i \in DOMAIN ss |-> ToUpper(ss[i])]

New(userRules) ==
    [maskedPatterns |-> toUpper(builtinMaskedPatterns \o userRules.MaskedPatterns),
     maskedExclude  |-> toUpper(builtinMaskedExclude \o userRules.MaskedExclude),
     filePatterns   |-> toUpper(builtinFilePatterns \o userRules.FilePatterns),
     fileExclude    |-> toUpper(builtinFileExclude \o userRules.FileExclude)]

NewEmpty ==
    [maskedPatterns |-> <<>>, maskedExclude |-> <<>>,
     filePatterns |-> <<>>, fileExclude |-> <<>>]

MaskableChars ==
    Range(LowerLetters) \cup Range(UpperLetters) \cup Digits
        \cup {"_", ":", "@", "-", "+", ".", "~", "=", "/"}

\* isMaskable that refuses a value of exactly eight characters.
isMaskableOverEight(value) ==
    IF Len(value) <= 8 THEN FALSE
    ELSE \A i \in DOMAIN value : value[i] \in MaskableChars

isMaskable(value) ==
    IF Len(value) < 8 THEN FALSE
    ELSE \A i \in DOMAIN value : value[i] \in MaskableChars

matchesMasked(c, key) ==
    LET upper == ToUpper(key) IN
    IF \E i \in DOMAIN c.maskedExclude : Contains(upper, c.maskedExclude[i])
    THEN FALSE
    ELSE \E i \in DOMAIN c.maskedPatterns : Contains(upper, c.maskedPatterns[i])

matchesFile(c, key, value) ==
    IF Len(c.filePatterns) > 0 /\ Contains(value, PEMHeader) THEN TRUE
    ELSE LET upper == ToUpper(key) IN
         IF \E i \in DOMAIN c.fileExclude : Contains(upper, c.fileExclude[i])
         THEN FALSE
         ELSE \E i \in DOMAIN c.filePatterns : Contains(upper, c.filePatterns[i])

\* Classify that decides masked before the file check and keeps it for a file.
ClassifyFileKeepsMasked(c, key, value, environment) ==
    IF matchesFile(c, key, value)
    THEN [VarType |-> "file",
          Masked |-> (matchesMasked(c, key) /\ isMaskable(value)),
          Protected |-> (environment = "production")]
    ELSE [VarType |-> "env_var",
          Masked |-> (matchesMasked(c, key) /\ isMaskable(value)),
          Protected |-> (environment = "production" /\ matchesMasked(c, key))]

Classify(c, key, value, environment) ==
    IF matchesFile(c, key, value)
    THEN [VarType |-> "file", Masked |-> FALSE,
          Protected |-> (environment = "production")]
    ELSE [VarType |-> "env_var",
          Masked |-> (matchesMasked(c, key) /\ isMaskable(value)),
          Protected |-> (environment = "production" /\ matchesMasked(c, key))]

\* cmd/glenv: the classifier a command builds from its settings.
DefaultCfg ==
    [Classify |-> NoRules, NoAutoClassify |-> FALSE,
     Environments |-> [name \in {} |-> [File |-> "", Protected |-> FALSE]]]

buildClassifier(c) ==
    IF c.NoAutoClassify THEN NewEmpty ELSE New(c.Classify)

----------------------------------------------------------------------------
(* pkg/gitlab: client-side scope filter *)

\* FilterByScope without the early return for the empty scope.
FilterByScopeNoEmptyCase(vs, scope) ==
    SelectSeq(vs, LAMBDA v :
        v.EnvironmentScope = scope
            \/ (scope # "*" /\ v.EnvironmentScope = "*"))

\* FilterByScope that keeps every record
FilterByScopeKeepsAll(vs, scope) == vs

FilterByScope(vs, scope) ==
    IF scope = "" THEN vs
    ELSE SelectSeq(vs, LAMBDA v :
            v.EnvironmentScope = scope
                \/ (scope # "*" /\ v.EnvironmentScope = "*"))

----------------------------------------------------------------------------
(* pkg/sync: Engine.Diff *)

ChangeCreate    == "create"
ChangeUpdate    == "update"
ChangeDelete    == "delete"
ChangeUnchanged == "unchanged"
ChangeSkipped   == "skipped"

\* A Change with every field at its Go zero value.
ZeroChange ==
    [Kind |-> "", Key |-> <<>>, OldValue |-> <<>>, NewValue |-> <<>>,
     Classification |-> <<>>, SkipReason |-> "",
     varType |-> "", masked |-> FALSE, protected |-> FALSE, raw |-> FALSE,
     envScope |-> ""]

buildClassLabel(cl) ==
    <<cl.VarType>>
        \o (IF cl.Masked THEN <<",masked">> ELSE <<>>)
        \o (IF cl.Protected THEN <<",protected">> ELSE <<>>)

EmptyMap == [k \in {} |-> ZeroChange]

\* The index loop in which the last record of a key always replaces the
\* previous one.
RECURSIVE remoteMapLastWins(_, _)
remoteMapLastWins(rem, n) ==
    IF n = 0 THEN EmptyMap
    ELSE LET m == remoteMapLastWins(rem, n - 1)
             v == rem[n]
         IN [k \in (DOMAIN m) \cup {v.Key} |-> IF k = v.Key THEN v ELSE m[k]]

\* The index of the filtered remote list by key: the loop of Diff over the
\* first n records.
RECURSIVE remoteMapOf(_, _)
remoteMapOf(rem, n) ==
    IF n = 0 THEN EmptyMap
    ELSE LET m == remoteMapOf(rem, n - 1)
             v == rem[n]
         IN IF v.Key \notin DOMAIN m \/ m[v.Key].EnvironmentScope = "*"
            THEN [k \in (DOMAIN m) \cup {v.Key} |-> IF k = v.Key THEN v ELSE m[k]]
            ELSE m

\* localChange that takes any indexed record of the key for a match,
\* whatever its scope.
localChangeAnyScope(c, remoteMap, lv, scope) ==
    LET cl == Classify(c, lv.Key, lv.Value, scope)
        classLabel == buildClassLabel(cl)
        exists == lv.Key \in DOMAIN remoteMap
        rv == remoteMap[lv.Key]
        scopeMatch == exists
    IN  IF ~scopeMatch
        THEN [ZeroChange EXCEPT !.Kind = ChangeCreate, !.Key = lv.Key,
                !.NewValue = lv.Value, !.Classification = classLabel,
                !.varType = cl.VarType, !.masked = cl.Masked,
                !.protected = cl.Protected, !.envScope = scope]
        ELSE IF rv.Value # lv.Value \/ rv.VariableType # cl.VarType
                  \/ rv.Masked # cl.Masked \/ rv.Protected # cl.Protected
        THEN [ZeroChange EXCEPT !.Kind = ChangeUpdate, !.Key = lv.Key,
                !.OldValue = rv.Value, !.NewValue = lv.Value,
                !.Classification = classLabel,
                !.varType = cl.VarType, !.masked = cl.Masked,
                !.protected = cl.Protected, !.raw = rv.Raw,
                !.envScope = rv.EnvironmentScope]
        ELSE [ZeroChange EXCEPT !.Kind = ChangeUnchanged, !.Key = lv.Key,
                !.OldValue = rv.Value, !.NewValue = lv.Value,
                !.Classification = classLabel,
                !.envScope = rv.EnvironmentScope]

\* localChange whose UPDATE carries the target scope instead of the scope of
\* the matched record.
localChangeUpdateTargetScope(c, remoteMap, lv, scope) ==
    LET cl == Classify(c, lv.Key, lv.Value, scope)
        classLabel == buildClassLabel(cl)
        exists == lv.Key \in DOMAIN remoteMap
        rv == remoteMap[lv.Key]
        scopeMatch ==
            exists /\ (rv.EnvironmentScope = scope \/ rv.EnvironmentScope = "*")
    IN  IF ~scopeMatch
        THEN [ZeroChange EXCEPT !.Kind = ChangeCreate, !.Key = lv.Key,
                !.NewValue = lv.Value, !.Classification = classLabel,
                !.varType = cl.VarType, !.masked = cl.Masked,
                !.protected = cl.Protected, !.envScope = scope]
        ELSE IF rv.Value # lv.Value \/ rv.VariableType # cl.VarType
                  \/ rv.Masked # cl.Masked \/ rv.Protected # cl.Protected
        THEN [ZeroChange EXCEPT !.Kind = ChangeUpdate, !.Key = lv.Key,
                !.OldValue = rv.Value, !.NewValue = lv.Value,
                !.Classification = classLabel,
                !.varType = cl.VarType, !.masked = cl.Masked,
                !.protected = cl.Protected, !.raw = rv.Raw,
                !.envScope = scope]
        ELSE [ZeroChange EXCEPT !.Kind = ChangeUnchanged, !.Key = lv.Key,
                !.OldValue = rv.Value, !.NewValue = lv.Value,
                !.Classification = classLabel,
                !.envScope = rv.EnvironmentScope]

\* The change Diff emits for one local entry.
localChange(c, remoteMap, lv, scope) ==
    LET cl == Classify(c, lv.Key, lv.Value, scope)
        classLabel == buildClassLabel(cl)
        exists == lv.Key \in DOMAIN remoteMap
        rv == remoteMap[lv.Key]
        scopeMatch ==
            exists /\ (rv.EnvironmentScope = scope \/ rv.EnvironmentScope = "*")
    IN  IF ~scopeMatch
        THEN [ZeroChange EXCEPT !.Kind = ChangeCreate, !.Key = lv.Key,
                !.NewValue = lv.Value, !.Classification = classLabel,
                !.varType = cl.VarType, !.masked = cl.Masked,
                !.protected = cl.Protected, !.envScope = scope]
        ELSE IF rv.Value # lv.Value \/ rv.VariableType # cl.VarType
                  \/ rv.Masked # cl.Masked \/ rv.Protected # cl.Protected
        THEN [ZeroChange EXCEPT !.Kind = ChangeUpdate, !.Key = lv.Key,
                !.OldValue = rv.Value, !.NewValue = lv.Value,
                !.Classification = classLabel,
                !.varType = cl.VarType, !.masked = cl.Masked,
                !.protected = cl.Protected, !.raw = rv.Raw,
                !.envScope = rv.EnvironmentScope]
        ELSE [ZeroChange EXCEPT !.Kind = ChangeUnchanged, !.Key = lv.Key,
                !.OldValue = rv.Value, !.NewValue = lv.Value,
                !.Classification = classLabel,
                !.envScope = rv.EnvironmentScope]

deleteChange(rv) ==
    [ZeroChange EXCEPT !.Kind = ChangeDelete, !.Key = rv.Key,
        !.OldValue = rv.Value, !.envScope = rv.EnvironmentScope]

\* deleteChanges that does not look at the DeleteMissing option.
deleteChangesAlways(filtered, loc, deleteMissing) ==
    LET localKeys == {loc[i].Key : i \in DOMAIN loc}
        orphans == SelectSeq(filtered, LAMBDA rv : rv.Key \notin localKeys)
    IN  [i \in DOMAIN orphans |-> deleteChange(orphans[i])]

\* deleteChanges that does not skip the keys of the local entries.
deleteChangesIgnoreLocal(filtered, loc, deleteMissing) ==
    IF deleteMissing
    THEN [i \in DOMAIN filtered |-> deleteChange(filtered[i])]
    ELSE <<>>

\* The remote-only records of the filtered list, when DeleteMissing is set.
deleteChanges(filtered, loc, deleteMissing) ==
    IF deleteMissing
    THEN LET localKeys == {loc[i].Key : i \in DOMAIN loc}
             orphans == SelectSeq(filtered, LAMBDA rv : rv.Key \notin localKeys)
         IN  [i \in DOMAIN orphans |-> deleteChange(orphans[i])]
    ELSE <<>>

\* Diff whose delete loop runs over the remote list as given, not the
\* filtered one.
DiffDeletesUnfiltered(c, o, loc, rem, scope) ==
    LET filtered == FilterByScope(rem, scope)
        remoteMap == remoteMapOf(filtered, Len(filtered))
    IN  [i \in DOMAIN loc |-> localChange(c, remoteMap, loc[i], scope)]
            \o deleteChanges(rem, loc, o.DeleteMissing)

\* Diff that emits the DELETE changes before the changes of the local entries.
DiffDeletesFirst(c, o, loc, rem, scope) ==
    LET filtered == FilterByScope(rem, scope)
        remoteMap == remoteMapOf(filtered, Len(filtered))
    IN  deleteChanges(filtered, loc, o.DeleteMissing)
            \o [i \in DOMAIN loc |-> localChange(c, remoteMap, loc[i], scope)]

Diff(c, o, loc, rem, scope) ==
    LET filtered == FilterByScope(rem, scope)
        remoteMap == remoteMapOf(filtered, Len(filtered))
    IN  [i \in DOMAIN loc |-> localChange(c, remoteMap, loc[i], scope)]
            \o deleteChanges(filtered, loc, o.DeleteMissing)

----------------------------------------------------------------------------
(* pkg/sync: NewEngine and the worker pool of ApplyWithCallback *)

DefaultWorkers == 5

NewEngine(o) ==
    IF o.Workers <= 0 THEN [o EXCEPT !.Workers = DefaultWorkers] ELSE o

ZeroReport ==
    [Created |-> 0, Updated |-> 0, Deleted |-> 0, Unchanged |-> 0,
     Skipped |-> 0, Failed |-> 0, APICalls |-> 0, Errors |-> <<>>]

\* Number of changes of one kind in a change list.
CountKind(changes, kind) ==
    Cardinality({i \in DOMAIN changes : changes[i].Kind = kind})

\* The first loop of ApplyWithCallback: changes that are neither UNCHANGED
\* nor SKIPPED go through the pool.
isActionable(ch) == ch.Kind # ChangeUnchanged /\ ch.Kind # ChangeSkipped

\* Indices of the actionable changes among the first n, in list order.
RECURSIVE actionableUpTo(_, _)
actionableUpTo(changes, n) ==
    IF n = 0 THEN <<>>
    ELSE IF isActionable(changes[n])
         THEN Append(actionableUpTo(changes, n - 1), n)
         ELSE actionableUpTo(changes, n - 1)

actionableOf(changes) == actionableUpTo(changes, Len(changes))

Workers == 1..opts.Workers

\* A worker goroutine: its position, the change it holds (an index into
\* diff) and the error of the Result it is about to send.
IdleWorker == [pc |-> "recv", task |-> 0, err |-> "nil"]

ExitedWorker == [pc |-> "exit", task |-> 0, err |-> "nil"]

\* cb == nil, nothing invoked yet
NoCallback == [registered |-> FALSE, log |-> <<>>]

\* if cb != nil { cb(Result{Change: ch}) } in the body of ApplyWithCallback:
\* the invocation runs on the goroutine that executes the statement
invoke(c, i, goroutine) ==
    IF c.registered
    THEN [c EXCEPT !.log = Append(@, [change |-> i, by |-> goroutine])]
    ELSE c

\* the callback invocations of the first loop, over changes[1..n]
RECURSIVE precountCallbacks(_, _, _)
precountCallbacks(c, changes, n) ==
    IF n = 0 THEN c
    ELSE LET before == precountCallbacks(c, changes, n - 1)
         IN IF isActionable(changes[n]) THEN before
            ELSE invoke(before, n, "caller")

\* the collecting loop that hands only the successes to the callback
notifySkipsFailed(c, r) ==
    IF r.err # "nil" THEN c ELSE invoke(c, r.task, "caller")

\* if cb != nil { cb(r) } at the head of the collecting loop
notify(c, r) == invoke(c, r.task, "caller")

\* ApplyWithCallback up to the start of the collecting loop: pre-count, fill
\* and close the task channel, launch the workers and the joiner.
ApplyStart ==
    /\ pc = "diffed"
    /\ LET act == actionableOf(diff)
           rep == [ZeroReport EXCEPT
                      !.Unchanged = CountKind(diff, ChangeUnchanged),
                      !.Skipped = CountKind(diff, ChangeSkipped)]
       IN  /\ report' = rep
           /\ actionable' = act
           /\ calls' = [i \in DOMAIN diff |-> <<>>]
           /\ cb' = precountCallbacks(cb, diff, Len(diff))
           /\ IF Len(act) = 0
              THEN /\ pc' = "returned"
                   /\ UNCHANGED <<taskCh, resultCh, resultClosed, wg, wk>>
              ELSE /\ pc' = "collect"
                   /\ taskCh' = act
                   /\ resultCh' = <<>>
                   /\ resultClosed' = FALSE
                   /\ wg' = opts.Workers
                   /\ wk' = [w \in Workers |-> IdleWorker]
    /\ UNCHANGED <<cmd, do, list, fn, local, remote, envScope, opts, cfg, store, diff, ctxDone, late>>

\* WorkerRecv that reads the head of the task channel without taking it out.
WorkerRecvPeek(w) ==
    /\ pc = "collect"
    /\ wk[w].pc = "recv"
    /\ taskCh # <<>>
    /\ wk' = [wk EXCEPT ![w] = [pc |-> "got", task |-> Head(taskCh),
                                err |-> "nil"]]
    /\ late' = IF ctxDone THEN late \cup {Head(taskCh)} ELSE late
    /\ UNCHANGED <<cmd, do, list, fn, cb, local, remote, envScope, opts, cfg, store, diff, pc,
                   ctxDone, report, actionable, taskCh, resultCh, resultClosed,
                   wg, calls>>

\* for task := range taskCh (a task is available)
WorkerRecv(w) ==
    /\ pc = "collect"
    /\ wk[w].pc = "recv"
    /\ taskCh # <<>>
    /\ wk' = [wk EXCEPT ![w] = [pc |-> "got", task |-> Head(taskCh),
                                err |-> "nil"]]
    /\ taskCh' = Tail(taskCh)
    /\ late' = IF ctxDone THEN late \cup {Head(taskCh)} ELSE late
    /\ UNCHANGED <<cmd, do, list, fn, cb, local, remote, envScope, opts, cfg, store, diff, pc,
                   ctxDone, report, actionable, resultCh, resultClosed, wg, calls>>

\* WorkerExit without the deferred wg.Done().
WorkerExitNoDone(w) ==
    /\ pc = "collect"
    /\ wk[w].pc = "recv"
    /\ taskCh = <<>>
    /\ wk' = [wk EXCEPT ![w] = ExitedWorker]
    /\ UNCHANGED <<cmd, do, list, fn, cb, local, remote, envScope, opts, cfg, store, diff, pc,
                   ctxDone, report, actionable, taskCh, resultCh, resultClosed,
                   wg, calls, late>>

\* for task := range taskCh (channel closed and drained); defer wg.Done()
WorkerExit(w) ==
    /\ pc = "collect"
    /\ wk[w].pc = "recv"
    /\ taskCh = <<>>
    /\ wk' = [wk EXCEPT ![w] = ExitedWorker]
    /\ wg' = wg - 1
    /\ UNCHANGED <<cmd, do, list, fn, cb, local, remote, envScope, opts, cfg, store, diff, pc,
                   ctxDone, report, actionable, taskCh, resultCh, resultClosed,
                   calls, late>>

\* requestOf with the masked flag left at its zero value.
requestOfDropMasked(task) ==
    IF task.Kind = ChangeDelete
    THEN [Key |-> task.Key, EnvironmentScope |-> task.envScope]
    ELSE [Key |-> task.Key, Value |-> task.NewValue,
          VariableType |-> IF task.varType = "" THEN "env_var" ELSE task.varType,
          EnvironmentScope |-> task.envScope,
          Masked |-> FALSE, Protected |-> task.protected,
          Raw |-> task.raw]

\* The client call applyOne makes for a change: the method and its request
\* (for DeleteVariable, the key and the scope filter).
requestOf(task) ==
    IF task.Kind = ChangeDelete
    THEN [Key |-> task.Key, EnvironmentScope |-> task.envScope]
    ELSE [Key |-> task.Key, Value |-> task.NewValue,
          VariableType |-> IF task.varType = "" THEN "env_var" ELSE task.varType,
          EnvironmentScope |-> task.envScope,
          Masked |-> task.masked, Protected |-> task.protected,
          Raw |-> task.raw]

methodOf(kind) ==
    CASE kind = ChangeCreate -> "CreateVariable"
      [] kind = ChangeUpdate -> "UpdateVariable"
      [] kind = ChangeDelete -> "DeleteVariable"

\* applyOne whose DELETE branch does not look at DryRun.
applyOneDeleteIgnoresDryRun(o, task) ==
    IF task.Kind \in {ChangeUnchanged, ChangeSkipped} THEN "nil"
    ELSE IF task.Kind \in {ChangeCreate, ChangeUpdate}
         THEN IF o.DryRun THEN "nil" ELSE "call"
         ELSE IF task.Kind = ChangeDelete THEN "call" ELSE "unknown"

\* What applyOne does before any client call returns: "nil" (a Result without
\* error and without a call), "call" (a client method is invoked) or
\* "unknown" (the default branch).
applyOne(o, task) ==
    IF task.Kind \in {ChangeUnchanged, ChangeSkipped} THEN "nil"
    ELSE IF task.Kind \in {ChangeCreate, ChangeUpdate, ChangeDelete}
         THEN IF o.DryRun THEN "nil" ELSE "call"
         ELSE "unknown"

\* dispatch without the cancellation pre-check.
dispatchNoCheck(o, task, done) == applyOne(o, task)

\* The body of the worker loop for one task: the cancellation pre-check, then
\* applyOne.
dispatch(o, task, done) ==
    IF done THEN "ctx" ELSE applyOne(o, task)

WorkerDispatch(w) ==
    /\ pc = "collect"
    /\ wk[w].pc = "got"
    /\ LET i == wk[w].task
           d == dispatch(opts, diff[i], ctxDone)
       IN  IF d = "call"
           THEN /\ wk' = [wk EXCEPT ![w].pc = "incall"]
                /\ calls' = [calls EXCEPT ![i] = Append(@,
                      [method |-> methodOf(diff[i].Kind),
                       req |-> requestOf(diff[i]), ret |-> "pending"])]
           ELSE /\ wk' = [wk EXCEPT ![w].pc = "send", ![w].err = d]
                /\ UNCHANGED calls
    /\ UNCHANGED <<cmd, do, list, fn, cb, local, remote, envScope, opts, cfg, store, diff, pc,
                   ctxDone, report, actionable, taskCh, resultCh, resultClosed,
                   wg, late>>

\* returned where the worker puts no error in its Result.
returnedDropsError(w, e) ==
    /\ wk' = [wk EXCEPT ![w].pc = "send", ![w].err = "nil"]
    /\ calls' = [calls EXCEPT ![wk[w].task] =
                    [@ EXCEPT ![Len(@)].ret = e]]

\* The call a worker is blocked in returns e.
returned(w, e) ==
    /\ wk' = [wk EXCEPT ![w].pc = "send", ![w].err = e]
    /\ calls' = [calls EXCEPT ![wk[w].task] =
                    [@ EXCEPT ![Len(@)].ret = e]]

\* A client call returns, with or without an error (any client).
ClientReturn(w) ==
    /\ pc = "collect"
    /\ wk[w].pc = "incall"
    /\ \E e \in {"nil", "client"} : returned(w, e)
    /\ UNCHANGED <<cmd, do, list, fn, cb, local, remote, envScope, opts, cfg, store, diff, pc,
                   ctxDone, report, actionable, taskCh, resultCh, resultClosed,
                   wg, late>>

\* resultCh <- Result{...}
WorkerSend(w) ==
    /\ pc = "collect"
    /\ wk[w].pc = "send"
    /\ Len(resultCh) < Len(actionable)
    /\ resultCh' = Append(resultCh, [task |-> wk[w].task, err |-> wk[w].err])
    /\ wk' = [wk EXCEPT ![w] = IdleWorker]
    /\ UNCHANGED <<cmd, do, list, fn, cb, local, remote, envScope, opts, cfg, store, diff, pc,
                   ctxDone, report, actionable, taskCh, resultClosed, wg, calls,
                   late>>

\* The joiner that closes the result channel without waiting for the workers.
JoinerNoWait ==
    /\ pc = "collect"
    /\ ~resultClosed
    /\ resultClosed' = TRUE
    /\ UNCHANGED <<cmd, do, list, fn, cb, local, remote, envScope, opts, cfg, store, diff, pc,
                   ctxDone, report, actionable, taskCh, resultCh, wg, wk, calls,
                   late>>

\* wg.Wait(); close(resultCh)
Joiner ==
    /\ pc = "collect"
    /\ wg = 0
    /\ ~resultClosed
    /\ resultClosed' = TRUE
    /\ UNCHANGED <<cmd, do, list, fn, cb, local, remote, envScope, opts, cfg, store, diff, pc,
                   ctxDone, report, actionable, taskCh, resultCh, wg, wk, calls,
                   late>>

\* collect without the continue after a failure: a failed result is also
\* counted by its kind.
collectNoContinue(rep, o, r, kind) ==
    LET rep1 == IF r.err # "nil"
                THEN [rep EXCEPT !.Failed = @ + 1, !.Errors = Append(@, r.err)]
                ELSE rep
        api == IF o.DryRun THEN 0 ELSE 1
    IN  CASE kind = ChangeCreate ->
                [rep1 EXCEPT !.Created = @ + 1, !.APICalls = @ + api]
          [] kind = ChangeUpdate ->
                [rep1 EXCEPT !.Updated = @ + 1, !.APICalls = @ + api]
          [] kind = ChangeDelete ->
                [rep1 EXCEPT !.Deleted = @ + 1, !.APICalls = @ + api]
          [] OTHER -> rep1

\* collect that counts a failure without keeping its error
collectDropsError(rep, o, r, kind) ==
    IF r.err # "nil"
    THEN [rep EXCEPT !.Failed = @ + 1]
    ELSE LET api == IF o.DryRun THEN 0 ELSE 1 IN
         CASE kind = ChangeCreate ->
                 [rep EXCEPT !.Created = @ + 1, !.APICalls = @ + api]
           [] kind = ChangeUpdate ->
                 [rep EXCEPT !.Updated = @ + 1, !.APICalls = @ + api]
           [] kind = ChangeDelete ->
                 [rep EXCEPT !.Deleted = @ + 1, !.APICalls = @ + api]
           [] OTHER -> rep

\* collect that counts an API call for a success of a dry run too
collectCountsDryRun(rep, o, r, kind) ==
    IF r.err # "nil"
    THEN [rep EXCEPT !.Failed = @ + 1, !.Errors = Append(@, r.err)]
    ELSE CASE kind = ChangeCreate ->
                 [rep EXCEPT !.Created = @ + 1, !.APICalls = @ + 1]
           [] kind = ChangeUpdate ->
                 [rep EXCEPT !.Updated = @ + 1, !.APICalls = @ + 1]
           [] kind = ChangeDelete ->
                 [rep EXCEPT !.Deleted = @ + 1, !.APICalls = @ + 1]
           [] OTHER -> rep

\* One iteration of the collecting loop.
collect(rep, o, r, kind) ==
    IF r.err # "nil"
    THEN [rep EXCEPT !.Failed = @ + 1, !.Errors = Append(@, r.err)]
    ELSE LET api == IF o.DryRun THEN 0 ELSE 1 IN
         CASE kind = ChangeCreate ->
                 [rep EXCEPT !.Created = @ + 1, !.APICalls = @ + api]
           [] kind = ChangeUpdate ->
                 [rep EXCEPT !.Updated = @ + 1, !.APICalls = @ + api]
           [] kind = ChangeDelete ->
                 [rep EXCEPT !.Deleted = @ + 1, !.APICalls = @ + api]
           [] OTHER -> rep

Collect ==
    /\ pc = "collect"
    /\ resultCh # <<>>
    /\ LET r == Head(resultCh) IN
          /\ cb' = notify(cb, r)
          /\ report' = collect(report, opts, r, diff[r.task].Kind)
    /\ resultCh' = Tail(resultCh)
    /\ UNCHANGED <<cmd, do, list, fn, local, remote, envScope, opts, cfg, store, diff, pc,
                   ctxDone, actionable, taskCh, resultClosed, wg, wk, calls,
                   late>>

\* for r := range resultCh ends: the channel is closed and drained.
ApplyReturn ==
    /\ pc = "collect"
    /\ resultCh = <<>>
    /\ resultClosed
    /\ pc' = "returned"
    /\ UNCHANGED <<cmd, do, list, fn, cb, local, remote, envScope, opts, cfg, store, diff,
                   ctxDone, report, actionable, taskCh, resultCh, resultClosed,
                   wg, wk, calls, late>>

\* The caller's context is cancelled while Apply runs.
Cancel ==
    /\ pc = "collect"
    /\ ~ctxDone
    /\ ctxDone' = TRUE
    /\ UNCHANGED <<cmd, do, list, fn, cb, local, remote, envScope, opts, cfg, store, diff, pc,
                   report, actionable, taskCh, resultCh, resultClosed, wg, wk,
                   calls, late>>

----------------------------------------------------------------------------
(* The remote store behind the client: it holds one record per (key, scope), *)
(* performs the request it accepts and rejects a create of an existing      *)
(* record and an update or delete of a missing one.                         *)

storeIndex(st, key, scope) ==
    {i \in DOMAIN st : st[i].Key = key /\ st[i].EnvironmentScope = scope}

recordOf(req) ==
    [Key |-> req.Key, Value |-> req.Value, VariableType |-> req.VariableType,
     EnvironmentScope |-> req.EnvironmentScope,
     Protected |-> req.Protected, Masked |-> req.Masked, Raw |-> req.Raw]

storeAccepts(st, call) ==
    LET hit == storeIndex(st, call.req.Key, call.req.EnvironmentScope) IN
    IF call.method = "CreateVariable" THEN hit = {} ELSE hit # {}

storeApply(st, call) ==
    LET hit == storeIndex(st, call.req.Key, call.req.EnvironmentScope) IN
    CASE call.method = "CreateVariable" -> Append(st, recordOf(call.req))
      [] call.method = "UpdateVariable" ->
            [i \in DOMAIN st |-> IF i \in hit THEN recordOf(call.req) ELSE st[i]]
      [] call.method = "DeleteVariable" ->
            SelectSeq(st, LAMBDA r :
                ~(r.Key = call.req.Key
                    /\ r.EnvironmentScope = call.req.EnvironmentScope))

\* A client call returns from the store.
StoreReturn(w) ==
    /\ pc = "collect"
    /\ wk[w].pc = "incall"
    /\ LET cs == calls[wk[w].task]
           call == cs[Len(cs)]
       IN  IF storeAccepts(store, call)
           THEN /\ store' = storeApply(store, call)
                /\ returned(w, "nil")
           ELSE /\ store' = store
                /\ returned(w, "client")
    /\ UNCHANGED <<cmd, do, list, fn, cb, local, remote, envScope, opts, cfg, diff, pc, ctxDone,
                   report, actionable, taskCh, resultCh, resultClosed, wg, late>>

----------------------------------------------------------------------------
(* cmd/glenv: one sync of a file to a scope, then the diff of the next run *)

\* syncOne: build the classifier and the engine, list the remote variables,
\* then Diff.
syncDiff(from, to) ==
    /\ pc = from
    /\ remote' = store
    /\ diff' = Diff(buildClassifier(cfg), opts, local, store, envScope)
    /\ pc' = to
    /\ UNCHANGED <<cmd, do, list, fn, cb, local, envScope, opts, cfg, store, ctxDone, report,
                   actionable, taskCh, resultCh, resultClosed, wg, wk, calls,
                   late>>

DiffStep == syncDiff("init", "diffed")

SyncAgain == syncDiff("returned", "rediffed")

----------------------------------------------------------------------------
(* Inputs *)

KeyA == <<"A">>
KeyApi == <<"A","P","I","_","K","E","Y">>
Keys == {KeyA, KeyApi}

ValShort == <<"v">>
ValLong == <<"s","e","c","r","e","t","1","2">>
Values == {ValShort, ValLong}

TargetScopes == {"", "*", "production", "staging"}
SyncScopes == {"*", "production"}
RecordScopes == {"*", "production"}

PlainMeta ==
    [VariableType |-> "env_var", Masked |-> FALSE, Protected |-> FALSE,
     Raw |-> FALSE]
FileMeta ==
    [VariableType |-> "file", Masked |-> TRUE, Protected |-> FALSE,
     Raw |-> TRUE]
Metas == {PlainMeta, FileMeta}

LocalVariables == [Key : Keys, Value : Values]

remoteVariables(metas) ==
    {[Key |-> k, Value |-> v, VariableType |-> m.VariableType,
      EnvironmentScope |-> sc, Protected |-> m.Protected, Masked |-> m.Masked,
      Raw |-> m.Raw] : k \in Keys, v \in Values, sc \in RecordScopes, m \in metas}

SeqsUpTo(S, n) == UNION {[1..m -> S] : m \in 0..n}

\* A dotenv file parses to entries with unique keys.
LocalLists ==
    {s \in SeqsUpTo(LocalVariables, MaxLocal) :
        \A i, j \in DOMAIN s : s[i].Key = s[j].Key => i = j}

\* The store holds one record per (key, scope).
remoteLists(metas) ==
    {s \in SeqsUpTo(remoteVariables(metas), MaxRemote) :
        \A i, j \in DOMAIN s :
            (s[i].Key = s[j].Key /\ s[i].EnvironmentScope = s[j].EnvironmentScope)
                => i = j}

Kinds == {ChangeCreate, ChangeUpdate, ChangeDelete, ChangeUnchanged, ChangeSkipped}

\* The i-th change of an input list: its key is its position.
TaskKeys == <<"1", "2", "3", "4", "5", "6", "7", "8", "9">>

inputChange(kind, i) ==
    [ZeroChange EXCEPT !.Kind = kind, !.Key = <<"K", TaskKeys[i]>>,
                       !.NewValue = <<"v">>, !.envScope = "*"]

ChangeLists ==
    UNION {{[i \in 1..n |-> inputChange(ks[i], i)] : ks \in [1..n -> Kinds]}
             : n \in 0..MaxChanges}

\* The value of do, list and fn where no such call is made.
NoCall == [pc |-> "none"]

\* Nothing has run yet.
idle ==
    /\ remote = <<>>
    /\ ctxDone \in BOOLEAN
    /\ report = ZeroReport
    /\ actionable = <<>>
    /\ taskCh = <<>>
    /\ resultCh = <<>>
    /\ resultClosed = FALSE
    /\ wg = 0
    /\ wk = <<>>
    /\ calls = <<>>
    /\ late = {}
    /\ do = NoCall
    /\ list = NoCall
    /\ fn = NoCall
    /\ cmd = NoCall

----------------------------------------------------------------------------
(* Apply on any change list, with any client: specification SpecApply *)

InitApply ==
    /\ local = <<>>
    /\ store = <<>>
    /\ envScope = "*"
    /\ cfg = DefaultCfg
    /\ \E w \in 1..MaxWorkers, d \in BOOLEAN :
          opts = NewEngine([Workers |-> w, DryRun |-> d, DeleteMissing |-> FALSE])
    /\ diff \in ChangeLists
    /\ pc = "diffed"
    /\ cb \in {NoCallback, [NoCallback EXCEPT !.registered = TRUE]}
    /\ idle

NextApply ==
    \/ ApplyStart
    \/ \E w \in Workers : WorkerRecv(w)
    \/ \E w \in Workers : WorkerExit(w)
    \/ \E w \in Workers : WorkerDispatch(w)
    \/ \E w \in Workers : ClientReturn(w)
    \/ \E w \in Workers : WorkerSend(w)
    \/ Joiner
    \/ Collect
    \/ ApplyReturn
    \/ Cancel

SpecApply == InitApply /\ [][NextApply]_vars

\* The same, with the scheduling the Go runtime gives: every goroutine that
\* can take a step eventually takes one, and every client call returns.
workerStep(w) ==
    /\ w \in Workers
    /\ WorkerRecv(w) \/ WorkerExit(w) \/ WorkerDispatch(w) \/ WorkerSend(w)

clientStep(w) == w \in Workers /\ ClientReturn(w)

FairApply ==
    /\ WF_vars(ApplyStart \/ Collect \/ ApplyReturn)
    /\ WF_vars(Joiner)
    /\ \A w \in 1..MaxWorkers : WF_vars(workerStep(w))
    /\ \A w \in 1..MaxWorkers : WF_vars(clientStep(w))

SpecApplyFair == InitApply /\ [][NextApply]_vars /\ FairApply

----------------------------------------------------------------------------
(* Diff on any local list, remote list and scope: specification SpecDiff *)

InitDiff ==
    /\ local \in LocalLists
    /\ store \in remoteLists(Metas)
    /\ envScope \in TargetScopes
    /\ cfg = DefaultCfg
    /\ \E dm \in BOOLEAN :
          opts = NewEngine([Workers |-> 0, DryRun |-> FALSE, DeleteMissing |-> dm])
    /\ diff = <<>>
    /\ pc = "init"
    /\ cb = NoCallback
    /\ idle
    /\ ~ctxDone

NextDiff == DiffStep

SpecDiff == InitDiff /\ [][NextDiff]_vars

----------------------------------------------------------------------------
(* A sync run against the store, followed by the next run's diff: Spec *)

Init ==
    /\ local \in LocalLists
    /\ store \in remoteLists({PlainMeta})
    /\ envScope \in SyncScopes
    /\ cfg = DefaultCfg
    /\ \E dm \in BOOLEAN :
          opts = NewEngine([Workers |-> MaxWorkers, DryRun |-> FALSE,
                            DeleteMissing |-> dm])
    /\ diff = <<>>
    /\ pc = "init"
    /\ cb = [NoCallback EXCEPT !.registered = TRUE]
    /\ idle
    /\ ~ctxDone

Next ==
    \/ DiffStep
    \/ ApplyStart
    \/ \E w \in Workers : WorkerRecv(w)
    \/ \E w \in Workers : WorkerExit(w)
    \/ \E w \in Workers : WorkerDispatch(w)
    \/ \E w \in Workers : StoreReturn(w)
    \/ \E w \in Workers : WorkerSend(w)
    \/ Joiner
    \/ Collect
    \/ ApplyReturn
    \/ SyncAgain

Spec == Init /\ [][Next]_vars

----------------------------------------------------------------------------
(* pkg/gitlab: NewClient and Client.Do: specification SpecDo *)

MaxRetry == 2

DefaultRetryMax == 3

\* NewClient: the RetryMax the client works with.
NewClient(retryMax) == IF retryMax <= 0 THEN DefaultRetryMax ELSE retryMax

\* What an attempt can end in: 0 stands for a transport error (c.http.Do
\* returns an error), any other value is the status code of the response.
Outcomes == {0, 200, 401, 404, 429, 500}

Retryable(o) == o = 0 \/ o = 429 \/ o >= 500

\* Do has returned resp and err.
doReturn(d, resp, err) == [d EXCEPT !.pc = "done", !.resp = resp, !.err = err]

\* Do enters the select on ctx.Done() and the backoff timer.
doBackoff(d) == [d EXCEPT !.pc = "sleep", !.sleeps = @ + 1]

\* Do at the start of a call, before the first iteration of the loop.
doStart(retryMax, cancelled) ==
    [configured |-> retryMax, RetryMax |-> NewClient(retryMax),
     pc |-> "wait", attempt |-> 0, acquired |-> 0, requests |-> 0,
     sleeps |-> 0, outcomes |-> <<>>, lastErr |-> "nil",
     resp |-> 0, err |-> "nil",
     ctxDone |-> cancelled,
     cancelledAt |-> IF cancelled THEN "start" ELSE "never",
     requestsAtCancel |-> 0]

\* limiterWait with a limiter that does not look at the context.
limiterWaitIgnoresCtx(d) ==
    [d EXCEPT !.pc = "http", !.acquired = @ + 1, !.requests = @ + 1]

\* c.limiter.Wait(ctx) returns; when it returns nil the request goes out.
limiterWait(d) ==
    IF d.ctxDone
    THEN doReturn(d, 0, "limiter")
    ELSE [d EXCEPT !.pc = "http", !.acquired = @ + 1, !.requests = @ + 1]

\* nextAttempt with the loop condition attempt < RetryMax.
nextAttemptOneLess(d) ==
    IF d.attempt + 1 < d.RetryMax
    THEN [d EXCEPT !.attempt = @ + 1, !.pc = "wait"]
    ELSE doReturn([d EXCEPT !.attempt = @ + 1], 0, "exhausted")

\* nextAttempt that sends the retry without going back to the limiter.
nextAttemptSkipsLimiter(d) ==
    IF d.attempt + 1 <= d.RetryMax
    THEN [d EXCEPT !.attempt = @ + 1, !.pc = "http"]
    ELSE doReturn([d EXCEPT !.attempt = @ + 1], 0, "exhausted")

\* The end of the loop: the next iteration, or the return after the loop.
nextAttempt(d) ==
    IF d.attempt + 1 <= d.RetryMax
    THEN [d EXCEPT !.attempt = @ + 1, !.pc = "wait"]
    ELSE doReturn([d EXCEPT !.attempt = @ + 1], 0, "exhausted")

\* afterAttempt that hands a 401 response back to the caller with a nil error.
afterAttemptReturns401(d0, o) ==
    LET d == [d0 EXCEPT !.outcomes = Append(@, o)] IN
    IF o = 0
    THEN LET e == [d EXCEPT !.lastErr = "transport"] IN
         IF e.attempt < e.RetryMax THEN doBackoff(e) ELSE nextAttempt(e)
    ELSE IF o = 401 THEN doReturn(d, o, "nil")
    ELSE IF o = 429
    THEN IF d.attempt < d.RetryMax THEN doBackoff(d)
         ELSE doReturn(d, 0, "ratelimited")
    ELSE IF o >= 500
    THEN LET e == [d EXCEPT !.lastErr = "server"] IN
         IF e.attempt < e.RetryMax THEN doBackoff(e)
         ELSE doReturn(e, 0, "server")
    ELSE doReturn(d, o, "nil")

\* afterAttempt without the branch for status >= 500: such a response is
\* handed back to the caller.
afterAttemptNo5xxRetry(d0, o) ==
    LET d == [d0 EXCEPT !.outcomes = Append(@, o)] IN
    IF o = 0
    THEN LET e == [d EXCEPT !.lastErr = "transport"] IN
         IF e.attempt < e.RetryMax THEN doBackoff(e) ELSE nextAttempt(e)
    ELSE IF o = 401 THEN doReturn(d, 0, "auth")
    ELSE IF o = 429
    THEN IF d.attempt < d.RetryMax THEN doBackoff(d)
         ELSE doReturn(d, 0, "ratelimited")
    ELSE doReturn(d, o, "nil")

\* The body of the loop after c.http.Do returned outcome o, up to the next
\* point where Do blocks or returns.
afterAttempt(d0, o) ==
    LET d == [d0 EXCEPT !.outcomes = Append(@, o)] IN
    IF o = 0
    THEN LET e == [d EXCEPT !.lastErr = "transport"] IN
         IF e.attempt < e.RetryMax THEN doBackoff(e) ELSE nextAttempt(e)
    ELSE IF o = 401 THEN doReturn(d, 0, "auth")
    ELSE IF o = 429
    THEN IF d.attempt < d.RetryMax THEN doBackoff(d)
         ELSE doReturn(d, 0, "ratelimited")
    ELSE IF o >= 500
    THEN LET e == [d EXCEPT !.lastErr = "server"] IN
         IF e.attempt < e.RetryMax THEN doBackoff(e)
         ELSE doReturn(e, 0, "server")
    ELSE doReturn(d, o, "nil")

\* The select of a backoff: ctx.Done() or the timer.
afterBackoff(d) ==
    IF d.ctxDone THEN doReturn(d, 0, "ctx") ELSE nextAttempt(d)

DoWait ==
    /\ do.pc = "wait"
    /\ do' = limiterWait(do)
    /\ UNCHANGED <<syncVars, list, fn>>

DoResponse ==
    /\ do.pc = "http"
    /\ \E o \in Outcomes : do' = afterAttempt(do, o)
    /\ UNCHANGED <<syncVars, list, fn>>

DoSleep ==
    /\ do.pc = "sleep"
    /\ do' = afterBackoff(do)
    /\ UNCHANGED <<syncVars, list, fn>>

\* The caller's context is cancelled while Do runs.
DoCancel ==
    /\ do.pc \in {"wait", "http", "sleep"}
    /\ ~do.ctxDone
    /\ do' = [do EXCEPT !.ctxDone = TRUE, !.cancelledAt = do.pc,
                        !.requestsAtCancel = do.requests]
    /\ UNCHANGED <<syncVars, list, fn>>

\* No sync run is in progress.
noSync ==
    /\ local = <<>>
    /\ store = <<>>
    /\ envScope = "*"
    /\ cfg = DefaultCfg
    /\ opts = NewEngine([Workers |-> 0, DryRun |-> FALSE, DeleteMissing |-> FALSE])
    /\ diff = <<>>
    /\ pc = "none"
    /\ remote = <<>>
    /\ ctxDone = FALSE
    /\ report = ZeroReport
    /\ actionable = <<>>
    /\ taskCh = <<>>
    /\ resultCh = <<>>
    /\ resultClosed = FALSE
    /\ wg = 0
    /\ wk = <<>>
    /\ calls = <<>>
    /\ late = {}
    /\ cb = NoCallback
    /\ cmd = NoCall

InitDo ==
    /\ noSync
    /\ \E n \in 0..MaxRetry, c \in BOOLEAN : do = doStart(n, c)
    /\ list = NoCall
    /\ fn = NoCall

NextDo == DoWait \/ DoResponse \/ DoSleep \/ DoCancel

SpecDo == InitDo /\ [][NextDo]_vars

----------------------------------------------------------------------------
(* pkg/gitlab: Client.ListVariables: specification SpecList *)

maxPages == 1000

DigitChars == <<"0","1","2","3","4","5","6","7","8","9">>

digitValue(c) == (CHOOSE i \in DOMAIN DigitChars : DigitChars[i] = c) - 1

\* The decimal text of n, as the server writes a page number.
RECURSIVE Itoa(_)
Itoa(n) ==
    IF n < 0 THEN <<"-">> \o Itoa(0 - n)
    ELSE IF n < 10 THEN <<DigitChars[n + 1]>>
    ELSE Itoa(n \div 10) \o <<DigitChars[(n % 10) + 1]>>

RECURSIVE digitsValue(_)
digitsValue(s) ==
    IF s = <<>> THEN 0
    ELSE digitsValue(SubSeq(s, 1, Len(s) - 1)) * 10 + digitValue(s[Len(s)])

\* strconv.Atoi: an optional sign and at least one digit, nothing else.
Atoi(s) ==
    LET signed == s # <<>> /\ s[1] \in {"+", "-"}
        ds == IF signed THEN Tail(s) ELSE s
        ok == ds # <<>> /\ \A i \in DOMAIN ds : ds[i] \in Digits
    IN  [ok |-> ok,
         n |-> IF ~ok THEN 0
               ELSE IF signed /\ s[1] = "-" THEN 0 - digitsValue(ds)
               ELSE digitsValue(ds)]

\* ListVariables before its loop; all is the number of variables collected,
\* resp the last answer of c.Do and fetched the page it was requested for.
listStart(optsPage) ==
    [pc |-> "loop", pageNum |-> 0,
     page |-> IF optsPage > 0 THEN optsPage ELSE 1,
     all |-> 0, requests |-> 0, returned |-> "nil", err |-> "nil",
     resp |-> [kind |-> "none"], fetched |-> 0]

\* ListVariables has returned: the variables collected or nil, and an error.
listReturn(l, vs, err) ==
    [l EXCEPT !.pc = "done", !.returned = vs, !.err = err]

\* listStep that lets the loop run while pageNum <= maxPages.
listStepOneMore(l0, r) ==
    LET l == [l0 EXCEPT !.requests = @ + 1, !.resp = r, !.fetched = l0.page] IN
    IF r.kind = "doerr" THEN listReturn(l, "nil", "do")
    ELSE IF r.kind = "status" THEN listReturn(l, "nil", "status")
    ELSE IF r.kind = "decode" THEN listReturn(l, "nil", "decode")
    ELSE LET m == [l EXCEPT !.all = @ + r.n]
             a == Atoi(r.next)
         IN  IF r.next = <<>> \/ r.next = <<"0">> THEN listReturn(m, "all", "nil")
             ELSE IF ~a.ok \/ a.n <= m.page THEN listReturn(m, "all", "nil")
             ELSE IF m.pageNum + 1 <= maxPages
             THEN [m EXCEPT !.page = a.n, !.pageNum = @ + 1]
             ELSE listReturn([m EXCEPT !.page = a.n, !.pageNum = @ + 1],
                             "nil", "exceeded")

\* One iteration of the loop of ListVariables on the answer r to the request
\* of the current page: the result of c.Do, the decoding of the body, the
\* X-Next-Page header; then the loop condition.
listStep(l0, r) ==
    LET l == [l0 EXCEPT !.requests = @ + 1, !.resp = r, !.fetched = l0.page] IN
    IF r.kind = "doerr" THEN listReturn(l, "nil", "do")
    ELSE IF r.kind = "status" THEN listReturn(l, "nil", "status")
    ELSE IF r.kind = "decode" THEN listReturn(l, "nil", "decode")
    ELSE LET m == [l EXCEPT !.all = @ + r.n]
             a == Atoi(r.next)
         IN  IF r.next = <<>> \/ r.next = <<"0">> THEN listReturn(m, "all", "nil")
             ELSE IF ~a.ok \/ a.n <= m.page THEN listReturn(m, "all", "nil")
             ELSE IF m.pageNum + 1 < maxPages
             THEN [m EXCEPT !.page = a.n, !.pageNum = @ + 1]
             ELSE listReturn([m EXCEPT !.page = a.n, !.pageNum = @ + 1],
                             "nil", "exceeded")

\* What the request of page p can be answered with: an error of Do, a status
\* other than 200, a body that does not decode, or a page of n variables with
\* an X-Next-Page header.
NextPageHeaders(p) ==
    {<<>>, <<"0">>, <<"x">>, <<"-", "1">>, Itoa(p), Itoa(p + 1)}
        \cup (IF p > 1 THEN {Itoa(p - 1)} ELSE {})

Answers(l) ==
    {[kind |-> k] : k \in {"doerr", "status", "decode"}}
        \cup {[kind |-> "page", n |-> n, next |-> h] :
                 n \in {k \in 0..1 : l.all + k <= MaxRemote},
                 h \in NextPageHeaders(l.page)}

ListPage ==
    /\ list.pc = "loop"
    /\ \E r \in Answers(list) : list' = listStep(list, r)
    /\ UNCHANGED <<syncVars, do, fn>>

InitList ==
    /\ noSync
    /\ do = NoCall
    /\ \E p \in {0, 3} : list = listStart(p)
    /\ fn = NoCall

NextList == ListPage

\* Every request of a page is answered.
SpecList == InitList /\ [][NextList]_vars /\ WF_vars(ListPage)

----------------------------------------------------------------------------
(* FilterByScope on any list and scope: specification SpecFilter *)

MaxVars == 3

\* The i-th variable of an input list: its key is its position.
inputVariable(i, scope) ==
    [Key |-> <<"K", TaskKeys[i]>>, Value |-> ValShort,
     VariableType |-> "env_var", EnvironmentScope |-> scope,
     Protected |-> FALSE, Masked |-> FALSE, Raw |-> FALSE]

VariableLists ==
    UNION {{[i \in 1..n |-> inputVariable(i, ss[i])] :
               ss \in [1..n -> {"*", "production", "staging"}]}
             : n \in 0..MaxVars}

\* result := FilterByScope(vars, scope); again := FilterByScope(result, scope)
FilterApply ==
    /\ fn.pc = "in"
    /\ LET result == FilterByScope(fn.vars, fn.scope) IN
          fn' = [fn EXCEPT !.pc = "out", !.result = result,
                           !.again = FilterByScope(result, fn.scope)]
    /\ UNCHANGED <<syncVars, do, list>>

InitFilter ==
    /\ noSync
    /\ do = NoCall
    /\ list = NoCall
    /\ \E vs \in VariableLists, scope \in TargetScopes :
          fn = [pc |-> "in", vars |-> vs, scope |-> scope,
                result |-> <<>>, again |-> <<>>]

NextFilter == FilterApply

SpecFilter == InitFilter /\ [][NextFilter]_vars

----------------------------------------------------------------------------
(* pkg/envfile: ParseReader *)

SP == " "
TAB == "\t"
LF == "\n"
CR == "\r"
FF == "\f"
DQ == "\""
SQ == "'"
BS == "\\"

\* unicode.IsSpace on the characters of the inputs
isSpace(c) == c \in {SP, TAB, LF, CR, FF}

\* strings.ToLower on one character
LowerChar(c) ==
    IF \E i \in DOMAIN UpperLetters : UpperLetters[i] = c
    THEN LowerLetters[CHOOSE i \in DOMAIN UpperLetters : UpperLetters[i] = c]
    ELSE c

ToLower(s) == [i \in DOMAIN s |-> LowerChar(s[i])]

\* s[a:b] and s[a:], with Go's indices from zero
Slice(s, a, b) == SubSeq(s, a + 1, b)

SliceFrom(s, a) == SubSeq(s, a + 1, Len(s))

HasPrefix(s, p) == Len(s) >= Len(p) /\ SubSeq(s, 1, Len(p)) = p

\* strings.Index / strings.IndexByte for one character: -1 when absent
IndexByte(s, c) ==
    IF \E i \in DOMAIN s : s[i] = c
    THEN (CHOOSE i \in DOMAIN s : s[i] = c /\ \A j \in 1..(i - 1) : s[j] # c) - 1
    ELSE -1

RECURSIVE TrimLeftSpace(_)
TrimLeftSpace(s) ==
    IF s # <<>> /\ isSpace(Head(s)) THEN TrimLeftSpace(Tail(s)) ELSE s

RECURSIVE TrimRight(_, _)
TrimRight(s, cutset) ==
    IF s # <<>> /\ s[Len(s)] \in cutset
    THEN TrimRight(SubSeq(s, 1, Len(s) - 1), cutset)
    ELSE s

TrimSpace(s) == TrimRight(TrimLeftSpace(s), {SP, TAB, LF, CR, FF})

\* bufio.ScanLines over the whole input: lines end at LF, one trailing CR is
\* dropped, a last line without LF is a line when it is not empty
dropCR(s) == IF s # <<>> /\ s[Len(s)] = CR THEN SubSeq(s, 1, Len(s) - 1) ELSE s

RECURSIVE ScanLines(_)
ScanLines(text) ==
    IF text = <<>> THEN <<>>
    ELSE LET i == IndexByte(text, LF)
         IN IF i < 0 THEN <<dropCR(text)>>
            ELSE <<dropCR(Slice(text, 0, i))>> \o ScanLines(SliceFrom(text, i + 1))

SkipBlank == "BLANK"
SkipComment == "COMMENT"
SkipPlaceholder == "PLACEHOLDER"
SkipInterpolation == "INTERPOLATION"

placeholderPatterns ==
    << <<"y","o","u","r","_">>,
       <<"c","h","a","n","g","e","_","m","e">>,
       <<"r","e","p","l","a","c","e","_","w","i","t","h","_">> >>

isPlaceholder(value) ==
    LET lower == ToLower(value)
    IN \E p \in DOMAIN placeholderPatterns : Contains(lower, placeholderPatterns[p])

isInterpolation(value) == Contains(value, <<"$", "{">>)

\* number of consecutive backslashes that end just before index i (from zero)
RECURSIVE backslashes(_, _)
backslashes(s, i) ==
    IF i > 0 /\ s[i] = BS THEN 1 + backslashes(s, i - 1) ELSE 0

\* containsUnescapedInterpolation without the backslash count
containsUnescapedInterpolationAnyParity(s) == Contains(s, <<"$", "{">>)

containsUnescapedInterpolation(s) ==
    \E i \in 0..(Len(s) - 2) :
        /\ s[i + 1] = "$"
        /\ s[i + 2] = "{"
        /\ backslashes(s, i) % 2 = 0

findUnescapedQuote(s) ==
    LET hit(i) == s[i + 1] = DQ /\ backslashes(s, i) % 2 = 0
    IN IF \E i \in 0..(Len(s) - 1) : hit(i)
       THEN CHOOSE i \in 0..(Len(s) - 1) : hit(i) /\ \A j \in 0..(i - 1) : ~hit(j)
       ELSE -1

\* strings.NewReplacer(`\\`,`\`, `\"`,`"`, `\$`,`$`, `\n`,LF, `\r`,CR).Replace:
\* one pass from the left, no rescan of what was written
unescapePairs == (BS :> BS) @@ (DQ :> DQ) @@ ("$" :> "$") @@ ("n" :> LF) @@ ("r" :> CR)

RECURSIVE unescapeDoubleQuoted(_)
unescapeDoubleQuoted(s) ==
    IF s = <<>> THEN <<>>
    ELSE IF Len(s) >= 2 /\ s[1] = BS /\ s[2] \in DOMAIN unescapePairs
         THEN <<unescapePairs[s[2]]>> \o unescapeDoubleQuoted(SliceFrom(s, 2))
         ELSE <<s[1]>> \o unescapeDoubleQuoted(Tail(s))

EmptyResult == [Variables |-> <<>>, Skipped |-> <<>>, err |-> "nil", errLine |-> 0, errKey |-> <<>>]

skip(res, line, key, reason) ==
    [res EXCEPT !.Skipped = Append(@, [Line |-> line, Key |-> key, Reason |-> reason])]

\* fail that hands back what was parsed so far together with the error
failKeepsResult(res, kind, line, key) ==
    [res EXCEPT !.err = kind, !.errLine = line, !.errKey = key]

\* return nil, fmt.Errorf("envfile: line %d: unterminated ... for key %q", ...)
fail(res, kind, line, key) ==
    [Variables |-> <<>>, Skipped |-> <<>>, err |-> kind, errLine |-> line, errKey |-> key]

\* the line with its surrounding space and its "export " prefix removed
trimmedOf(line) ==
    LET trimmed == TrimSpace(line)
        export == <<"e","x","p","o","r","t"," ">>
    IN IF HasPrefix(trimmed, export)
       THEN TrimSpace(SliceFrom(trimmed, Len(export)))
       ELSE trimmed

keyOf(trimmed) == TrimRight(Slice(trimmed, 0, IndexByte(trimmed, "=")), {SP, TAB})

rawValueOf(trimmed) == SliceFrom(trimmed, IndexByte(trimmed, "=") + 1)

\* the inner loop of a multiline value: lines[j] is the next line to scan
RECURSIVE accumulate(_, _, _)
accumulate(lines, j, sb) ==
    IF j > Len(lines) THEN [terminated |-> FALSE, raw |-> sb, lineNum |-> j - 1]
    ELSE LET nextLine == lines[j]
             closeIdx == findUnescapedQuote(nextLine)
         IN IF closeIdx >= 0
            THEN [terminated |-> TRUE,
                  raw |-> sb \o <<LF>> \o Slice(nextLine, 0, closeIdx),
                  lineNum |-> j]
            ELSE accumulate(lines, j + 1, sb \o <<LF>> \o nextLine)

\* the tail of the loop body, for a value that was read completely
finish(res, key, value, dqProcessed, lineNum) ==
    IF ~dqProcessed /\ isInterpolation(value)
    THEN skip(res, lineNum, key, SkipInterpolation)
    ELSE IF isPlaceholder(value)
    THEN skip(res, lineNum, key, SkipPlaceholder)
    ELSE [res EXCEPT !.Variables =
              Append(@, [Key |-> key, Value |-> value, Line |-> lineNum])]

\* the scanning loop: lines[n] is the next line, res the result so far
RECURSIVE scan(_, _, _)
scan(lines, n, res) ==
    IF n > Len(lines) THEN res
    ELSE
    LET lineNum == n
        trimmed == trimmedOf(lines[n])
        eqIdx == IndexByte(trimmed, "=")
        key == keyOf(trimmed)
        rawValue == rawValueOf(trimmed)
    IN
    IF trimmed = <<>> THEN scan(lines, n + 1, skip(res, lineNum, <<>>, SkipBlank))
    ELSE IF HasPrefix(trimmed, <<"#">>)
    THEN scan(lines, n + 1, skip(res, lineNum, <<>>, SkipComment))
    ELSE IF eqIdx < 0 THEN scan(lines, n + 1, res)
    ELSE IF key = <<>> THEN scan(lines, n + 1, res)
    ELSE IF Len(rawValue) > 0 /\ (rawValue[1] = DQ \/ rawValue[1] = SQ)
    THEN
        LET quote == rawValue[1]
            inner == SliceFrom(rawValue, 1)
            closeIdx == IF quote = DQ THEN findUnescapedQuote(inner)
                        ELSE IndexByte(inner, quote)
            raw == Slice(inner, 0, closeIdx)
            multi == accumulate(lines, n + 1, inner)
        IN
        IF closeIdx >= 0
        THEN IF quote = DQ
             THEN IF containsUnescapedInterpolation(raw)
                  THEN scan(lines, n + 1, skip(res, lineNum, key, SkipInterpolation))
                  ELSE scan(lines, n + 1,
                            finish(res, key, unescapeDoubleQuoted(raw), TRUE, lineNum))
             ELSE scan(lines, n + 1, finish(res, key, raw, FALSE, lineNum))
        ELSE IF quote = DQ
        THEN IF ~multi.terminated
             THEN fail(res, "unterminated double-quoted value", lineNum, key)
             ELSE IF containsUnescapedInterpolation(multi.raw)
             THEN scan(lines, multi.lineNum + 1,
                       skip(res, lineNum, key, SkipInterpolation))
             ELSE scan(lines, multi.lineNum + 1,
                       finish(res, key, unescapeDoubleQuoted(multi.raw), TRUE,
                              multi.lineNum))
        ELSE fail(res, "unterminated single-quoted value", lineNum, key)
    ELSE scan(lines, n + 1, finish(res, key, rawValue, FALSE, lineNum))

\* dedupe that keeps the first occurrence of a key
RECURSIVE dedupeFirstWins(_, _)
dedupeFirstWins(vs, deduped) ==
    IF vs = <<>> THEN deduped
    ELSE LET v == Head(vs)
         IN IF \E idx \in DOMAIN deduped : deduped[idx].Key = v.Key
            THEN dedupeFirstWins(Tail(vs), deduped)
            ELSE dedupeFirstWins(Tail(vs), Append(deduped, v))

\* last occurrence wins, at the position of the first
RECURSIVE dedupe(_, _)
dedupe(vs, deduped) ==
    IF vs = <<>> THEN deduped
    ELSE LET v == Head(vs)
         IN IF \E idx \in DOMAIN deduped : deduped[idx].Key = v.Key
            THEN LET idx == CHOOSE i \in DOMAIN deduped : deduped[i].Key = v.Key
                 IN dedupe(Tail(vs), [deduped EXCEPT ![idx] = v])
            ELSE dedupe(Tail(vs), Append(deduped, v))

ParseReader(text) ==
    LET result == scan(ScanLines(text), 1, EmptyResult)
    IN IF result.err # "nil" THEN result
       ELSE [result EXCEPT !.Variables = dedupe(result.Variables, <<>>)]

----------------------------------------------------------------------------
(* Classify on any key, value and environment: specification SpecClassify *)

MaxParts == 3

\* Values are made of up to MaxParts of these pieces: maskable characters of
\* every class, the PEM header, a space, a dollar sign.
ValueParts ==
    {<<"a", "b", "1", "_">>, <<"Z", "9", "x">>,
     <<":", "@", ".", "~", "+", "=", "/", "-">>,
     PEMHeader, <<" ">>, <<"$">>}

RECURSIVE Concat(_)
Concat(ps) == IF ps = <<>> THEN <<>> ELSE Head(ps) \o Concat(Tail(ps))

ClassifyValues == {Concat(ps) : ps \in SeqsUpTo(ValueParts, MaxParts)}

\* User rules, written in lower case: a masked pattern that matches every
\* key of the inputs, and a file pattern that matches API_KEY.
MaskAllRules == [NoRules EXCEPT !.MaskedPatterns = <<<<"a">>>>]

FileKeyRules == [NoRules EXCEPT !.FilePatterns = <<<<"_", "k", "e", "y">>>>]

Classifiers == {New(NoRules), New(MaskAllRules), New(FileKeyRules), NewEmpty}

\* cl := c.Classify(key, value, environment)
ClassifyApply ==
    /\ fn.pc = "in"
    /\ fn' = [fn EXCEPT !.pc = "out",
                        !.cl = Classify(fn.c, fn.key, fn.value, fn.environment)]
    /\ UNCHANGED <<syncVars, do, list>>

InitClassify ==
    /\ noSync
    /\ do = NoCall
    /\ list = NoCall
    /\ \E c \in Classifiers, key \in Keys, value \in ClassifyValues,
          environment \in {"*", "production", "staging"} :
          fn = [pc |-> "in", c |-> c, key |-> key, value |-> value,
                environment |-> environment,
                cl |-> [VarType |-> "", Masked |-> FALSE, Protected |-> FALSE]]

NextClassify == ClassifyApply

SpecClassify == InitClassify /\ [][NextClassify]_vars

----------------------------------------------------------------------------
(* The diff of a sync to an environment declared in the configuration:      *)
(* specification SpecEnv                                                    *)

DeclaredEnvironments == {"production", "staging"}

\* config.Config.Environments: every declared environment with its file and
\* its protected flag.
EnvironmentConfigs ==
    [DeclaredEnvironments -> [File : {".env"}, Protected : BOOLEAN]]

InitEnv ==
    /\ local \in LocalLists
    /\ store = <<>>
    /\ envScope \in DeclaredEnvironments
    /\ \E e \in EnvironmentConfigs : cfg = [DefaultCfg EXCEPT !.Environments = e]
    /\ opts = NewEngine([Workers |-> 0, DryRun |-> FALSE, DeleteMissing |-> FALSE])
    /\ diff = <<>>
    /\ pc = "init"
    /\ cb = NoCallback
    /\ idle
    /\ ~ctxDone

NextEnv == DiffStep

SpecEnv == InitEnv /\ [][NextEnv]_vars

----------------------------------------------------------------------------
(* ParseReader on any small file: specification SpecParse *)

MaxBody == 3

MaxLines == 3

\* One-line files KEY=VALUE: the key part is plain, has a space inside, is
\* exported, or is surrounded by spaces; the value is an optional opening
\* quote, up to MaxBody pieces, and an optional closing quote.
KeyParts ==
    {<<"A", "=">>, <<"A", " ", "B", "=">>,
     <<"e","x","p","o","r","t"," ","A","=">>, <<" ", "A", " ", "=">>}

Quotes == {<<>>, <<DQ>>, <<SQ>>}

BodyParts == {<<BS>>, <<"$", "{">>, <<"x">>, <<DQ>>, <<"Y","o","u","r","_">>}

Bodies == {Concat(ps) : ps \in SeqsUpTo(BodyParts, MaxBody)}

EntryLines ==
    {k \o open \o body \o close :
        k \in KeyParts, open \in Quotes, body \in Bodies, close \in Quotes}

\* Files of up to MaxLines of these lines: blank, comment, no "=", empty key,
\* plain entries of two keys, a placeholder, an interpolation, an opening
\* double quote, a closing double quote, an opening single quote
SimpleLines ==
    {<<>>, <<"#", "c">>, <<"A">>, <<"=", "x">>,
     <<"A", "=", "1">>, <<"A", "=", "2">>, <<"B", "=", "1">>,
     <<"A", "=", "y","o","u","r","_">>, <<"A", "=", "$", "{", "x", "}">>,
     <<"B", "=", DQ, "1">>, <<"x", DQ>>, <<"A", "=", SQ, "1">>}

RECURSIVE JoinLines(_)
JoinLines(ls) == IF ls = <<>> THEN <<>> ELSE Head(ls) \o <<LF>> \o JoinLines(Tail(ls))

ParseTexts ==
    {l \o <<LF>> : l \in EntryLines}
        \cup {JoinLines(ls) : ls \in SeqsUpTo(SimpleLines, MaxLines)}

\* result, err := ParseReader(strings.NewReader(text))
ParseApply ==
    /\ fn.pc = "in"
    /\ fn' = [fn EXCEPT !.pc = "out", !.result = ParseReader(fn.text)]
    /\ UNCHANGED <<syncVars, do, list>>

InitParse ==
    /\ noSync
    /\ do = NoCall
    /\ list = NoCall
    /\ \E text \in ParseTexts :
          fn = [pc |-> "in", text |-> text, result |-> EmptyResult]

NextParse == ParseApply

SpecParse == InitParse /\ [][NextParse]_vars

----------------------------------------------------------------------------
(* glenv export, then ParseReader on what it wrote: specification SpecExport *)

MaxValueParts == 3

\* strings.ContainsAny(val, " \t\n\r\"'\\$")
needsQuoting(val) == \E i \in DOMAIN val : val[i] \in {SP, TAB, LF, CR, DQ, SQ, BS, "$"}

\* strings.NewReplacer(`\`,`\\`, "\r",`\r`, "\n",`\n`, `"`,`\"`, `$`,`\$`).Replace
RECURSIVE escapeValue(_)
escapeValue(val) ==
    IF val = <<>> THEN <<>>
    ELSE LET c == Head(val)
             e == CASE c = BS -> <<BS, BS>>
                    [] c = CR -> <<BS, "r">>
                    [] c = LF -> <<BS, "n">>
                    [] c = DQ -> <<BS, DQ>>
                    [] c = "$" -> <<BS, "$">>
                    [] OTHER -> <<c>>
         IN e \o escapeValue(Tail(val))

\* the line ExportCommand.Execute writes for one remote variable
exportLine(v) ==
    IF v.VariableType = "file"
    THEN <<"#", " ">> \o v.Key \o
         <<" ","(","f","i","l","e"," ","t","y","p","e",","," ",
           "s","k","i","p","p","e","d",")">> \o <<LF>>
    ELSE LET val == IF needsQuoting(v.Value)
                    THEN <<DQ>> \o escapeValue(v.Value) \o <<DQ>>
                    ELSE v.Value
         IN v.Key \o <<"=">> \o val \o <<LF>>

ExportValueParts ==
    {<<BS>>, <<"$">>, <<"{">>, <<DQ>>, <<SQ>>, <<SP>>, <<LF>>, <<CR>>, <<FF>>,
     <<"n">>, <<"x">>, <<"#">>, <<"y","o","u","r","_">>}

ExportValues == {Concat(ps) : ps \in SeqsUpTo(ExportValueParts, MaxValueParts)}

ExportVariables ==
    [Key : Keys, Value : ExportValues, VariableType : {"env_var", "file"}]

\* glenv export -o file
ExportApply ==
    /\ fn.pc = "remote"
    /\ fn' = [fn EXCEPT !.pc = "in", !.text = exportLine(fn.v)]
    /\ UNCHANGED <<syncVars, do, list>>

InitExport ==
    /\ noSync
    /\ do = NoCall
    /\ list = NoCall
    /\ \E v \in ExportVariables :
          fn = [pc |-> "remote", v |-> v, text |-> <<>>, result |-> EmptyResult]

NextExport == ExportApply \/ ParseApply

SpecExport == InitExport /\ [][NextExport]_vars

----------------------------------------------------------------------------
(* Claims *)

Sum(rep) ==
    rep.Created + rep.Updated + rep.Deleted + rep.Unchanged + rep.Skipped
        + rep.Failed

NoCalls == \A i \in DOMAIN calls : calls[i] = <<>>

\* C1: convergence of sync.  For a non-empty target scope, a local list with
\* unique keys and a store with unique (key, scope) pairs, once every change
\* of the diff has been applied successfully by a non-dry-run Apply, the diff
\* of the next run against the resulting store contains only UNCHANGED changes.
C1_Convergence ==
    (pc = "rediffed" /\ report.Failed = 0)
        => \A i \in DOMAIN diff : diff[i].Kind = ChangeUnchanged

\* A converged run that deleted an orphan and created or updated an entry.
C1_Witness ==
    /\ pc = "rediffed"
    /\ report.Failed = 0
    /\ report.Deleted >= 1
    /\ report.Created + report.Updated >= 1
    /\ Len(diff) >= 1


\* C2: for every run of Apply (any change list, worker count, interleaving,
\* mix of client successes and errors, dry-run or not, context cancelled at
\* any moment or never) the returned report satisfies
\* Created + Updated + Deleted + Unchanged + Skipped + Failed = len(Changes).
C2_ReportAccountsForEveryChange ==
    pc = "returned" => Sum(report) = Len(diff)

\* A run whose context was cancelled returned a report with one success and
\* one failure.
C2_Witness ==
    /\ pc = "returned"
    /\ ctxDone
    /\ report.Failed = 1
    /\ report.Created + report.Updated + report.Deleted = 1

\* C3: with DryRun set, Apply never invokes CreateVariable, UpdateVariable or
\* DeleteVariable, the report has APICalls = 0, and Created / Updated /
\* Deleted count the CREATE / UPDATE / DELETE changes that were processed
\* (all of them when nothing failed).
C3_DryRunMakesNoCall ==
    opts.DryRun =>
        /\ NoCalls
        /\ report.APICalls = 0
        /\ report.Created <= CountKind(diff, ChangeCreate)
        /\ report.Updated <= CountKind(diff, ChangeUpdate)
        /\ report.Deleted <= CountKind(diff, ChangeDelete)
        /\ (pc = "returned" /\ report.Failed = 0) =>
              /\ report.Created = CountKind(diff, ChangeCreate)
              /\ report.Updated = CountKind(diff, ChangeUpdate)
              /\ report.Deleted = CountKind(diff, ChangeDelete)

\* A dry run returned having counted a DELETE and another actionable change.
C3_Witness ==
    /\ opts.DryRun
    /\ pc = "returned"
    /\ report.Deleted = 1
    /\ report.Created + report.Updated = 1


\* C4: Apply always returns.  For every number of actionable changes and
\* every worker count >= 1, when every goroutine that can step eventually
\* steps and every client call eventually returns, Apply reaches its return
\* with all workers exited, the result channel closed and drained; also when
\* the context is cancelled while all workers are inside client calls.
C4_ApplyReturns ==
    <>(/\ pc = "returned"
       /\ actionable # <<>> =>
             /\ wg = 0
             /\ resultClosed
             /\ resultCh = <<>>
             /\ \A w \in Workers : wk[w] = ExitedWorker)

\* The context is cancelled while every worker is blocked inside a client
\* call.
C4_Witness ==
    /\ pc = "collect"
    /\ ctxDone
    /\ late = {}
    /\ opts.Workers = MaxWorkers
    /\ \A w \in Workers : wk[w].pc = "incall"

\* C5: cancellation fail-fast.  No client call is made for a task a worker
\* received from the task channel after the context was cancelled; every such
\* task produces a Result carrying the context error and is counted in
\* Failed; when all tasks were received after the cancellation (in
\* particular with a context cancelled before Apply starts) no client call
\* is made at all and Failed equals the number of actionable changes.
C5_CancelFailFast ==
    /\ [](/\ \A i \in late : calls[i] = <<>>
          /\ \A w \in DOMAIN wk :
                (wk[w].pc = "send" /\ wk[w].task \in late) => wk[w].err = "ctx"
          /\ \A k \in DOMAIN resultCh :
                resultCh[k].task \in late => resultCh[k].err = "ctx"
          /\ pc = "returned" => report.Failed >= Cardinality(late))
    /\ (pc = "diffed" /\ ctxDone) =>
          [](/\ NoCalls
             /\ pc = "returned" => /\ late = Range(actionable)
                                   /\ report.Failed = Len(actionable))

\* A non-dry run returned in which one task was received after the
\* cancellation and failed without a call, while another task had its call.
C5_Witness ==
    /\ pc = "returned"
    /\ ~opts.DryRun
    /\ late # {}
    /\ \E i \in DOMAIN calls : calls[i] # <<>>
    /\ report.Failed >= Cardinality(late)
    /\ \E k \in DOMAIN report.Errors : report.Errors[k] = "ctx"

\* The number of actionable changes whose client call returned an error.
clientErrors ==
    Cardinality({i \in DOMAIN calls :
                    \E k \in DOMAIN calls[i] : calls[i][k].ret = "client"})

\* C6: failure isolation.  When the context is not cancelled, a client error
\* on one actionable change does not keep any other actionable change from
\* being attempted: with n actionable changes of which f returned a client
\* error the report has Failed = f and Created + Updated + Deleted = n - f.
C6_FailureIsolation ==
    (pc = "returned" /\ ~ctxDone) =>
        /\ report.Failed = clientErrors
        /\ report.Created + report.Updated + report.Deleted
              = Len(actionable) - clientErrors
        /\ ~opts.DryRun => \A i \in Range(actionable) : calls[i] # <<>>

\* An uncancelled run returned with one client error and one success.
C6_Witness ==
    /\ pc = "returned"
    /\ ~ctxDone
    /\ clientErrors = 1
    /\ report.Failed = 1
    /\ report.Created + report.Updated + report.Deleted = 1

\* C7: exactly-once application.  No change ever gets more than one client
\* call, a call is only made for a CREATE / UPDATE / DELETE change and is of
\* the method matching the kind, no two workers hold the same task, and a
\* non-dry-run Apply with an uncancelled context returns with exactly one
\* call for each CREATE / UPDATE / DELETE change and none for an UNCHANGED or
\* SKIPPED change.
C7_ExactlyOnce ==
    /\ \A i \in DOMAIN calls :
          /\ Len(calls[i]) <= 1
          /\ calls[i] # <<>> =>
                /\ diff[i].Kind \in {ChangeCreate, ChangeUpdate, ChangeDelete}
                /\ calls[i][1].method = methodOf(diff[i].Kind)
    /\ \A w1, w2 \in DOMAIN wk :
          (w1 # w2 /\ wk[w1].pc \in {"got", "incall", "send"}
                   /\ wk[w2].pc \in {"got", "incall", "send"})
             => wk[w1].task # wk[w2].task
    /\ (pc = "returned" /\ ~opts.DryRun /\ ~ctxDone) =>
          \A i \in DOMAIN diff :
             Len(calls[i]) =
                IF diff[i].Kind \in {ChangeCreate, ChangeUpdate, ChangeDelete}
                THEN 1 ELSE 0

\* Two workers applied two changes of different kinds, one call each.
C7_Witness ==
    /\ pc = "returned"
    /\ ~opts.DryRun
    /\ ~ctxDone
    /\ opts.Workers = MaxWorkers
    /\ Len(actionable) >= 2
    /\ \E i, j \in DOMAIN calls :
          /\ Len(calls[i]) = 1
          /\ Len(calls[j]) = 1
          /\ calls[i][1].method # calls[j][1].method


\* The changes of the diff for key k.
changesFor(k) == {d \in DOMAIN diff : diff[d].Key = k}

\* The records with key k in the remote list given to Diff.
recordsFor(k) == {j \in DOMAIN remote : remote[j].Key = k}

\* C8: scope mismatch creates.  For every local entry k and target scope T,
\* if every remote record with key k has a scope other than T and other than
\* "*", Diff emits exactly one change for k: a CREATE with scope T and
\* NewValue equal to the local value.
C8_ScopeMismatchCreates ==
    pc = "diffed" =>
        \A i \in DOMAIN local :
            (\A j \in recordsFor(local[i].Key) :
                  /\ remote[j].EnvironmentScope # envScope
                  /\ remote[j].EnvironmentScope # "*")
            => /\ Cardinality(changesFor(local[i].Key)) = 1
               /\ \A d \in changesFor(local[i].Key) :
                     /\ diff[d].Kind = ChangeCreate
                     /\ diff[d].envScope = envScope
                     /\ diff[d].NewValue = local[i].Value

\* A local key whose only remote record has another, specific scope got its
\* CREATE (target "staging" or the empty target).
C8_Witness ==
    /\ pc = "diffed"
    /\ envScope \in {"", "staging"}
    /\ \E i \in DOMAIN local :
          /\ recordsFor(local[i].Key) # {}
          /\ \A j \in recordsFor(local[i].Key) :
                remote[j].EnvironmentScope = "production"
          /\ \E d \in changesFor(local[i].Key) : diff[d].Kind = ChangeCreate

scopeMatching(k) ==
    {j \in recordsFor(k) : remote[j].EnvironmentScope \in {envScope, "*"}}

matched(k) ==
    IF \E j \in scopeMatching(k) : remote[j].EnvironmentScope = envScope
    THEN CHOOSE j \in scopeMatching(k) : remote[j].EnvironmentScope = envScope
    ELSE CHOOSE j \in scopeMatching(k) : TRUE

\* The statement of C10 for the local entry i.
updateIffDiffers(i) ==
    LET lv == local[i]
        cl == Classify(buildClassifier(cfg), lv.Key, lv.Value, envScope)
        rv == remote[matched(lv.Key)]
        differs == \/ rv.Value # lv.Value
                   \/ rv.VariableType # cl.VarType
                   \/ rv.Masked # cl.Masked
                   \/ rv.Protected # cl.Protected
    IN  scopeMatching(lv.Key) # {} =>
           /\ changesFor(lv.Key) # {}
           /\ \A d \in changesFor(lv.Key) :
                 IF differs
                 THEN /\ diff[d].Kind = ChangeUpdate
                      /\ diff[d].OldValue = rv.Value
                      /\ diff[d].NewValue = lv.Value
                 ELSE diff[d].Kind = ChangeUnchanged

\* C10: for a local entry whose key has a scope-matching remote record (scope
\* equal to the target or "*"), Diff emits UPDATE if and only if at least one
\* of value, variable type, masked, protected differs between the local value
\* with its classification and the remote record, with OldValue the remote
\* value and NewValue the local value; otherwise it emits UNCHANGED.
C10_UpdateIffDiffers ==
    pc = "diffed" => \A i \in DOMAIN local : updateIffDiffers(i)

\* The same statement for the non-empty target scopes only.
C10_NonEmptyTarget ==
    (pc = "diffed" /\ envScope # "") => \A i \in DOMAIN local : updateIffDiffers(i)

\* With the empty target scope, a local key that has a wildcard record and a
\* record of a specific scope gets a CREATE.
C10_Witness ==
    /\ pc = "diffed"
    /\ envScope = ""
    /\ \E i \in DOMAIN local :
          /\ \E j \in recordsFor(local[i].Key) : remote[j].EnvironmentScope = "*"
          /\ \E d \in changesFor(local[i].Key) : diff[d].Kind = ChangeCreate


\* The keys of the local entries.
localKeySet == {local[i].Key : i \in DOMAIN local}

\* The rule of the scope filter, for one record and the target scope.
passesScope(rv) ==
    \/ envScope = ""
    \/ rv.EnvironmentScope = envScope
    \/ (envScope # "*" /\ rv.EnvironmentScope = "*")

\* The DELETE changes of the diff, in order, as (key, scope, old value).
deletesOfDiff ==
    LET ds == SelectSeq(diff, LAMBDA ch : ch.Kind = ChangeDelete)
    IN  [i \in DOMAIN ds |-> <<ds[i].Key, ds[i].envScope, ds[i].OldValue>>]

\* The remote records that pass the scope rule and whose key is not local.
orphansOfRemote ==
    LET rs == SelectSeq(remote, LAMBDA rv :
                  passesScope(rv) /\ rv.Key \notin localKeySet)
    IN  [i \in DOMAIN rs |-> <<rs[i].Key, rs[i].EnvironmentScope, rs[i].Value>>]

\* C11: with DeleteMissing set, the DELETE changes Diff emits are exactly the
\* records of the scope-filtered remote list whose key is not a local key,
\* each with the scope of its record; no DELETE is emitted for a local key
\* or for a record the scope filter excludes.
C11_DeletesAreFilteredOrphans ==
    (pc = "diffed" /\ opts.DeleteMissing) => deletesOfDiff = orphansOfRemote

\* Of two remote records one was given the only DELETE and a remote-only one
\* was excluded by the scope filter.
C11_Witness ==
    /\ pc = "diffed"
    /\ opts.DeleteMissing
    /\ Len(deletesOfDiff) = 1
    /\ Len(remote) = 2
    /\ \E j \in DOMAIN remote :
          remote[j].Key \notin localKeySet /\ ~passesScope(remote[j])

\* C12: with DeleteMissing not set, for every local list, remote list and
\* target scope, Diff emits no DELETE change.
C12_NoDeleteUnlessAsked ==
    (pc = "diffed" /\ ~opts.DeleteMissing) =>
        \A i \in DOMAIN diff : diff[i].Kind # ChangeDelete

\* Diff ran without DeleteMissing on a remote list with a remote-only record
\* that passes the scope filter.
C12_Witness ==
    /\ pc = "diffed"
    /\ ~opts.DeleteMissing
    /\ Len(orphansOfRemote) >= 1

actionableKinds == {ChangeCreate, ChangeUpdate, ChangeDelete}

\* C13 as stated: the change list holds at most one actionable change
\* (CREATE, UPDATE or DELETE) per key.
C13_OneActionablePerKey ==
    pc = "diffed" =>
        \A i, j \in DOMAIN diff :
            (/\ diff[i].Kind \in actionableKinds
             /\ diff[j].Kind \in actionableKinds
             /\ diff[i].Key = diff[j].Key) => i = j

\* C13, amended: the change list holds exactly one change per local key and
\* none other for that key, and at most one DELETE per remote-only record:
\* no two actionable changes have the same key and the same scope.
C13_OneActionablePerRecord ==
    pc = "diffed" =>
        /\ \A k \in localKeySet : Cardinality(changesFor(k)) = 1
        /\ \A i, j \in DOMAIN diff :
              (/\ diff[i].Kind \in actionableKinds
               /\ diff[j].Kind \in actionableKinds
               /\ diff[i].Key = diff[j].Key
               /\ diff[i].envScope = diff[j].envScope) => i = j

\* A remote-only key with a wildcard record and a record of the target scope
\* got two DELETE changes, one per record, beside the change of a local key.
C13_Witness ==
    /\ pc = "diffed"
    /\ Len(local) >= 1
    /\ \E i, j \in DOMAIN diff :
          /\ i # j
          /\ diff[i].Kind = ChangeDelete
          /\ diff[j].Kind = ChangeDelete
          /\ diff[i].Key = diff[j].Key
          /\ diff[i].envScope # diff[j].envScope


Last(s) == s[Len(s)]

\* Every attempt of the Do call so far ended in a retryable outcome.
allRetryable == \A k \in DOMAIN do.outcomes : Retryable(do.outcomes[k])

C15_ExhaustionAfterConfigured ==
    (do.pc = "done" /\ ~do.ctxDone /\ allRetryable) =>
        /\ do.requests = do.configured + 1
        /\ do.err # "nil"

\* C15, amended: the same for N >= 1 and a context that is not cancelled; a
\* client configured with RetryMax = 0 works with the default RetryMax and
\* issues DefaultRetryMax + 1 requests.
C15_ExhaustionAfterRetryMax ==
    (do.pc = "done" /\ ~do.ctxDone /\ allRetryable) =>
        /\ do.configured >= 1 => do.requests = do.configured + 1
        /\ do.configured = 0 => do.requests = DefaultRetryMax + 1
        /\ do.err # "nil"
        /\ do.resp = 0

\* A client configured with RetryMax = 2 gave up after three requests that
\* ended in a transport error, a 429 and a 500.
C15_Witness ==
    /\ do.pc = "done"
    /\ ~do.ctxDone
    /\ do.configured = 2
    /\ do.requests = 3
    /\ \A o \in {0, 429, 500} : \E k \in DOMAIN do.outcomes : do.outcomes[k] = o

\* C16: if the first k attempts of a Do call (0 <= k <= RetryMax) each end in
\* a retryable outcome, Do goes on to attempt k + 1 (unless the context is
\* cancelled), and when that attempt receives a status that is neither 401,
\* 429 nor >= 500, Do has issued exactly k + 1 underlying requests and returns
\* that response with a nil error.
C16_SuccessAfterRetries ==
    do.pc # "none" =>
        /\ Len(do.outcomes) <= do.RetryMax + 1
        /\ (~do.ctxDone /\ allRetryable /\ Len(do.outcomes) <= do.RetryMax)
              => do.pc # "done"
        /\ (do.outcomes # <<>> /\ ~Retryable(Last(do.outcomes))
                /\ Last(do.outcomes) # 401) =>
              /\ do.pc = "done"
              /\ do.resp = Last(do.outcomes)
              /\ do.err = "nil"
              /\ do.requests = Len(do.outcomes)

\* After RetryMax retryable attempts (a transport error and a 500 among
\* them) the last attempt allowed received 200 and Do returned it.
C16_Witness ==
    /\ do.pc = "done"
    /\ do.RetryMax >= 2
    /\ Len(do.outcomes) = do.RetryMax + 1
    /\ Last(do.outcomes) = 200
    /\ do.err = "nil"
    /\ \E j, k \in DOMAIN do.outcomes : do.outcomes[j] = 0 /\ do.outcomes[k] = 500

\* C17: if the context is cancelled while Do is blocked in the rate-limiter
\* wait or in a backoff sleep between attempts (or before the call), Do
\* issues no further underlying request for that call and returns, from
\* that wait or sleep, a non-nil error and no response.
C17_CancelStopsDo ==
    do.cancelledAt \in {"start", "wait", "sleep"} =>
        /\ do.requests = do.requestsAtCancel
        /\ do.pc \in {"wait", "sleep", "done"}
        /\ do.pc = "done" => (do.err \in {"limiter", "ctx"} /\ do.resp = 0)

\* Do returned the context error after a cancellation during the backoff
\* sleep that followed its first request.
C17_Witness ==
    /\ do.pc = "done"
    /\ do.cancelledAt = "sleep"
    /\ do.requests >= 1
    /\ do.err = "ctx"


\* C18: ListVariables terminates for every server behaviour: it requests at
\* most maxPages pages in one call, and if the last of them still announces
\* a further page it returns an error and no variables.
C18_ListTerminates ==
    /\ <>(list.pc = "done")
    /\ [](/\ list.requests <= maxPages
          /\ list.pc = "loop" => list.pageNum < maxPages
          /\ (list.pc = "done" /\ list.pageNum = maxPages) =>
                /\ list.err = "exceeded"
                /\ list.returned = "nil")

\* maxPages pages were requested, variables were collected from them, and the
\* call returned the error and no variables.
C18_Witness ==
    /\ list.pc = "done"
    /\ list.requests = maxPages
    /\ list.all >= 1
    /\ list.err = "exceeded"
    /\ list.returned = "nil"


\* The rule of the scope filter for a record scope s and a filter scope.
keptBy(scope, s) ==
    \/ scope = ""
    \/ s = "*"  /\ scope # ""
    \/ s = scope

\* The position in the input list of the variable with key k (keys of the
\* input list are distinct).
positionOf(k) == CHOOSE i \in DOMAIN fn.vars : fn.vars[i].Key = k

\* C19: FilterByScope(vars, scope) returns, in input order, exactly the
\* entries whose scope passes the rule: every entry when scope is empty, only
\* the entries with scope "*" when scope is "*", the entries with scope S or
\* "*" when scope is a specific S; applying it to its own result with the
\* same scope gives the same list.
C19_FilterByScope ==
    fn.pc = "out" =>
        /\ \A j \in DOMAIN fn.result :
              /\ \E i \in DOMAIN fn.vars : fn.vars[i] = fn.result[j]
              /\ keptBy(fn.scope, fn.result[j].EnvironmentScope)
        /\ \A i \in DOMAIN fn.vars :
              keptBy(fn.scope, fn.vars[i].EnvironmentScope)
                 => \E j \in DOMAIN fn.result : fn.result[j] = fn.vars[i]
        /\ \A j, k \in DOMAIN fn.result :
              j < k => positionOf(fn.result[j].Key) < positionOf(fn.result[k].Key)
        /\ fn.scope = "" => fn.result = fn.vars
        /\ fn.scope = "*" =>
              \A j \in DOMAIN fn.result : fn.result[j].EnvironmentScope = "*"
        /\ fn.again = fn.result

\* A specific scope kept two entries, one of that scope and one wildcard, in
\* their order, and dropped an entry of another scope between them.
C19_Witness ==
    /\ fn.pc = "out"
    /\ fn.scope = "production"
    /\ Len(fn.vars) = 3
    /\ fn.vars[2].EnvironmentScope = "staging"
    /\ Len(fn.result) = 2
    /\ fn.result[1].EnvironmentScope # fn.result[2].EnvironmentScope

maskableAlphabet ==
    Range(LowerLetters) \cup Range(UpperLetters) \cup Digits
        \cup {"_", ":", "@", ".", "~", "+", "=", "/", "-"}

inAlphabet(v) == \A i \in DOMAIN v : v[i] \in maskableAlphabet

\* The default classifier classified the key API_KEY.
apiKeyClassified ==
    fn.pc = "out" /\ fn.c = New(NoRules) /\ fn.key = KeyApi

\* C20 as stated: with the default classifier, for every value v and every
\* scope, Classify("API_KEY", v, scope).Masked is true if and only if
\* len(v) >= 8 and every byte of v is in the maskable alphabet.
C20_MaskedIffMaskable ==
    apiKeyClassified =>
        (fn.cl.Masked <=> (Len(fn.value) >= 8 /\ inAlphabet(fn.value)))

\* C20, amended: ... if and only if len(v) >= 8, every byte of v is in the
\* maskable alphabet and v does not contain "-----BEGIN" (such a value is
\* classified as a file, which is never masked).
C20_MaskedIffMaskableNotPEM ==
    apiKeyClassified =>
        /\ fn.cl.Masked <=>
              (/\ Len(fn.value) >= 8
               /\ inAlphabet(fn.value)
               /\ ~Contains(fn.value, PEMHeader))
        /\ Contains(fn.value, PEMHeader) => fn.cl.VarType = "file"

\* A value of exactly eight characters, some of them not alphanumeric, was
\* classified as masked for API_KEY.
C20_Witness ==
    /\ apiKeyClassified
    /\ Len(fn.value) = 8
    /\ \E i \in DOMAIN fn.value : fn.value[i] \in {":", "@", "~", "/"}
    /\ fn.cl.Masked


\* C21: for every classifier (built-in rules merged with user rules, or the
\* empty classifier) and every key, value and scope, the classification
\* returned by Classify has: type file implies not masked, and masked implies
\* the value is maskable (length >= 8, only maskable-alphabet characters).
C21_FileNeverMasked ==
    fn.pc = "out" =>
        /\ fn.cl.VarType = "file" => ~fn.cl.Masked
        /\ fn.cl.Masked => (Len(fn.value) >= 8 /\ inAlphabet(fn.value))
        /\ fn.cl.VarType \in {"env_var", "file"}

\* A key that matches the masked rules, with a maskable value, was classified
\* as a file (by its PEM header or by a file rule) and is not masked.
C21_Witness ==
    /\ fn.pc = "out"
    /\ matchesMasked(fn.c, fn.key)
    /\ Len(fn.value) >= 8
    /\ inAlphabet(fn.value)
    /\ fn.cl.VarType = "file"
    /\ ~fn.cl.Masked


\* C22: when an environment is declared in the configuration with
\* protected: true, a sync to that environment marks the secret variables
\* (keys matching the masked rules) as protected; with protected: false it
\* does not.
C22_ProtectedFromConfig ==
    (pc = "diffed" /\ envScope \in DOMAIN cfg.Environments) =>
        \A i \in DOMAIN diff :
            (diff[i].Kind = ChangeCreate
                /\ matchesMasked(buildClassifier(cfg), diff[i].Key))
            => (diff[i].protected <=> cfg.Environments[envScope].Protected)

\* The sync to staging, declared protected, creates API_KEY unprotected.
C22_Witness ==
    /\ pc = "diffed"
    /\ envScope = "staging"
    /\ cfg.Environments["staging"].Protected
    /\ \E i \in DOMAIN diff :
          /\ diff[i].Key = KeyApi
          /\ diff[i].Kind = ChangeCreate
          /\ ~diff[i].protected


----------------------------------------------------------------------------
(* Claims about ParseReader *)

\* the lines of the input and the result of the scanning loop, before
\* deduplication
inputLines == ScanLines(fn.text)

occurrences == scan(inputLines, 1, EmptyResult)

\* the last entry of key k among the entries the scanning loop surfaced
lastOccurrence(k) ==
    LET o == occurrences.Variables
        i == CHOOSE i \in DOMAIN o :
                o[i].Key = k /\ \A j \in (i + 1)..Len(o) : o[j].Key # k
    IN o[i]

runBefore(s, i) ==
    CHOOSE k \in 0..(i - 1) :
        /\ \A j \in (i - k)..(i - 1) : s[j] = BS
        /\ (k = i - 1 \/ s[i - k - 1] # BS)

unescapedDollarBrace(s) ==
    \E i \in 1..(Len(s) - 1) :
        s[i] = "$" /\ s[i + 1] = "{" /\ runBefore(s, i) % 2 = 0

hasUnescapedQuote(s) ==
    \E i \in DOMAIN s : s[i] = DQ /\ runBefore(s, i) % 2 = 0

\* the first line of the input, which the parser always reads outside of any
\* quoted value
firstLine == trimmedOf(inputLines[1])

firstIsEntry ==
    /\ inputLines # <<>>
    /\ firstLine # <<>>
    /\ ~HasPrefix(firstLine, <<"#">>)
    /\ IndexByte(firstLine, "=") >= 0
    /\ keyOf(firstLine) # <<>>

firstStyle ==
    LET rv == rawValueOf(firstLine)
    IN IF rv # <<>> /\ rv[1] = DQ THEN "double"
       ELSE IF rv # <<>> /\ rv[1] = SQ THEN "single"
       ELSE "unquoted"

\* the value of the first entry: the raw content between the quotes (up to
\* the closing quote, on a later line if need be), or the literal value
firstContent ==
    LET rv == rawValueOf(firstLine)
        inner == SliceFrom(rv, 1)
    IN CASE firstStyle = "unquoted" -> rv
         [] firstStyle = "single" -> Slice(inner, 0, IndexByte(inner, SQ))
         [] firstStyle = "double" ->
                IF hasUnescapedQuote(inner)
                THEN Slice(inner, 0, findUnescapedQuote(inner))
                ELSE accumulate(inputLines, 2, inner).raw

firstSkippedAsInterpolation ==
    \E i \in DOMAIN fn.result.Skipped :
        /\ fn.result.Skipped[i].Line = 1
        /\ fn.result.Skipped[i].Reason = SkipInterpolation

\* C24 as stated: in every quoting style an entry is skipped with reason
\* INTERPOLATION exactly when its value holds a "${" that an even number of
\* backslashes precedes.
C24_SkipIffUnescaped ==
    (fn.pc = "out" /\ fn.result.err = "nil" /\ firstIsEntry) =>
        (firstSkippedAsInterpolation <=> unescapedDollarBrace(firstContent))

\* C24, amended: a double-quoted entry is skipped with reason INTERPOLATION
\* exactly when its raw content holds a "${" that an even number of
\* backslashes precedes; an unquoted or single-quoted entry is skipped
\* exactly when its literal value holds a "${", whatever precedes it.
C24_SkipByStyle ==
    (fn.pc = "out" /\ fn.result.err = "nil" /\ firstIsEntry) =>
        (firstSkippedAsInterpolation <=>
            IF firstStyle = "double"
            THEN unescapedDollarBrace(firstContent)
            ELSE Contains(firstContent, <<"$", "{">>))

\* An unquoted or single-quoted value whose only "${" follows one backslash
\* is skipped.
C24_Witness ==
    /\ fn.pc = "out"
    /\ fn.result.err = "nil"
    /\ firstIsEntry
    /\ firstStyle # "double"
    /\ Contains(firstContent, <<BS, "$", "{">>)
    /\ ~unescapedDollarBrace(firstContent)
    /\ firstSkippedAsInterpolation

\* no quote character on the lines before line n: the parser reads line n
\* outside of any quoted value
noQuoteBefore(n) ==
    \A m \in 1..(n - 1) : \A i \in DOMAIN inputLines[m] :
        inputLines[m][i] \notin {DQ, SQ}

\* line n is an entry whose value opens with quote q and is not closed: a
\* single quote has no closing quote on the line, a double quote has no
\* unescaped closing quote on the line nor on any line after it
unterminatedAt(n, q) ==
    LET t == trimmedOf(inputLines[n])
        rv == rawValueOf(t)
        inner == SliceFrom(rv, 1)
    IN /\ t # <<>>
       /\ ~HasPrefix(t, <<"#">>)
       /\ IndexByte(t, "=") >= 0
       /\ keyOf(t) # <<>>
       /\ rv # <<>>
       /\ rv[1] = q
       /\ q = SQ => IndexByte(inner, SQ) < 0
       /\ q = DQ => /\ ~hasUnescapedQuote(inner)
                    /\ \A m \in (n + 1)..Len(inputLines) :
                          ~hasUnescapedQuote(inputLines[m])

C26_RoundTrip ==
    (fn.pc = "out" /\ "v" \in DOMAIN fn
        /\ fn.v.VariableType # "file" /\ ~isPlaceholder(fn.v.Value)) =>
        /\ fn.result.err = "nil"
        /\ Len(fn.result.Variables) = 1
        /\ fn.result.Variables[1].Key = fn.v.Key
        /\ fn.result.Variables[1].Value = fn.v.Value

\* The value "x" followed by a form feed is written unquoted and comes back
\* as "x".
C26_Witness ==
    /\ fn.pc = "out"
    /\ "v" \in DOMAIN fn
    /\ fn.v.VariableType = "env_var"
    /\ fn.v.Value = <<"x", FF>>
    /\ fn.text = fn.v.Key \o <<"=", "x", FF, LF>>
    /\ fn.result.err = "nil"
    /\ Len(fn.result.Variables) = 1
    /\ fn.result.Variables[1].Value = <<"x">>

\* C27: every entry of Variables after a successful parse has a key that is
\* not empty and holds no whitespace character.
C27_KeysHaveNoWhitespace ==
    (fn.pc = "out" /\ fn.result.err = "nil") =>
        \A i \in DOMAIN fn.result.Variables :
            /\ fn.result.Variables[i].Key # <<>>
            /\ \A j \in DOMAIN fn.result.Variables[i].Key :
                  ~isSpace(fn.result.Variables[i].Key[j])

\* The line "A B=x" surfaces as an entry whose key is "A B".
C27_Witness ==
    /\ fn.pc = "out"
    /\ fn.text = <<"A", " ", "B", "=", "x", LF>>
    /\ fn.result.err = "nil"
    /\ Len(fn.result.Variables) = 1
    /\ fn.result.Variables[1].Key = <<"A", " ", "B">>
    /\ fn.result.Variables[1].Value = <<"x">>


----------------------------------------------------------------------------
(* Claims about the report of Apply *)

\* C28: at every point of an Apply run, and in the report it returns, the
\* number of entries of report.Errors equals report.Failed.
C28_ErrorsMatchFailed ==
    pc \in {"collect", "returned"} => Len(report.Errors) = report.Failed

\* Apply returned after two changes failed.
C28_Witness ==
    /\ pc = "returned"
    /\ report.Failed = 2
    /\ Len(report.Errors) = 2

succeeded == report.Created + report.Updated + report.Deleted

\* C29 as stated: APICalls never exceeds Created + Updated + Deleted, and
\* equals it exactly when the run is not a dry run and no change failed.
C29_EqualIffNoFailure ==
    pc = "returned" =>
        /\ report.APICalls <= succeeded
        /\ (report.APICalls = succeeded) <=> (~opts.DryRun /\ report.Failed = 0)

\* C29, amended: APICalls never exceeds Created + Updated + Deleted, and
\* equals it exactly when the run is not a dry run or no change succeeded;
\* failed changes count on neither side.
C29_EqualIffNotDryRun ==
    pc = "returned" =>
        /\ report.APICalls <= succeeded
        /\ (report.APICalls = succeeded) <=> (~opts.DryRun \/ succeeded = 0)
        /\ opts.DryRun => report.APICalls = 0

\* A run that is not a dry run returns with one change applied and one
\* failed: APICalls equals the successes although a change failed.
C29_Witness ==
    /\ pc = "returned"
    /\ ~opts.DryRun
    /\ report.Failed = 1
    /\ succeeded = 1
    /\ report.APICalls = 1


----------------------------------------------------------------------------
(* Claims about the callback of ApplyWithCallback *)

invocationsOf(i) == {k \in DOMAIN cb.log : cb.log[k].change = i}

\* C30: with a callback registered, ApplyWithCallback has invoked it exactly
\* once for every change of the list when it returns, UNCHANGED and SKIPPED
\* changes included, and never more than once before; every invocation runs
\* on the goroutine that called ApplyWithCallback, one after the other,
\* whatever the number of workers.  Without a callback nothing is invoked.
C30_CallbackOncePerChange ==
    pc \in {"collect", "returned"} =>
        /\ \A k \in DOMAIN cb.log :
              cb.log[k].by = "caller" /\ cb.log[k].change \in DOMAIN diff
        /\ \A i \in DOMAIN diff : Cardinality(invocationsOf(i)) <= 1
        /\ (pc = "returned" /\ cb.registered) =>
              \A i \in DOMAIN diff : Cardinality(invocationsOf(i)) = 1
        /\ ~cb.registered => cb.log = <<>>

\* Two workers, a change that is not sent through the pool and a change that
\* failed: the callback ran for both.
C30_Witness ==
    /\ pc = "returned"
    /\ cb.registered
    /\ opts.Workers = 2
    /\ Len(diff) = 2
    /\ \E i \in DOMAIN diff : ~isActionable(diff[i])
    /\ report.Failed = 1
    /\ Len(cb.log) = 2
    /\ cb.log[1].change # cb.log[2].change


----------------------------------------------------------------------------
(* pkg/config: Load, specification SpecLoad *)

\* The three connection settings and the environment variable of each.
GitLabFields == {"URL", "Token", "ProjectID"}

envVarOf(field) ==
    CASE field = "URL" -> "GITLAB_URL"
      [] field = "Token" -> "GITLAB_TOKEN"
      [] field = "ProjectID" -> "GITLAB_PROJECT_ID"

\* A setting is a literal string or one reference ${NAME}.
Literal(s) == [ref |-> FALSE, text |-> s]

Reference(name) == [ref |-> TRUE, text |-> name]

\* os.Getenv: the value of an unset variable is the empty string
Getenv(environ, name) == IF name \in DOMAIN environ THEN environ[name] ELSE ""

\* os.ExpandEnv on one setting
ExpandEnv(environ, v) == IF v.ref THEN Getenv(environ, v.text) ELSE v.text

defaults == [URL |-> Literal("https://gitlab.com"), Token |-> Literal(""),
             ProjectID |-> Literal("")]

applyEnvVars(environ, c) ==
    [f \in GitLabFields |->
        IF Getenv(environ, envVarOf(f)) # ""
        THEN Literal(Getenv(environ, envVarOf(f)))
        ELSE c[f]]

\* yaml.Unmarshal(data, &cfg): the keys the file holds overwrite the fields
unmarshal(file, c) ==
    [f \in GitLabFields |-> IF f \in DOMAIN file THEN file[f] ELSE c[f]]

expandEnvVars(environ, c) == [f \in GitLabFields |-> ExpandEnv(environ, c[f])]

\* Load(configPath); hasFile is the outcome of resolveConfigPath
Load(environ, hasFile, file) ==
    LET cfg0 == defaults
        cfg1 == applyEnvVars(environ, cfg0)
        cfg2 == IF hasFile THEN unmarshal(file, cfg1) ELSE cfg1
    IN expandEnvVars(environ, cfg2)

\* Environments: each GITLAB_* variable and OTHER is unset or set.
EnvNames == {"GITLAB_URL", "GITLAB_TOKEN", "GITLAB_PROJECT_ID", "OTHER"}

Environs ==
    UNION {[names -> {"from-env"}] : names \in SUBSET EnvNames}

\* Files: every subset of the three keys, each an empty string, a literal or
\* a reference to OTHER.
FileValues == {Literal(""), Literal("from-file"), Reference("OTHER")}

ConfigFiles ==
    UNION {[keys -> FileValues] : keys \in SUBSET GitLabFields}

LoadApply ==
    /\ fn.pc = "in"
    /\ fn' = [fn EXCEPT !.pc = "out",
                        !.cfg = Load(fn.environ, fn.hasFile, fn.file)]
    /\ UNCHANGED <<syncVars, do, list>>

InitLoad ==
    /\ noSync
    /\ do = NoCall
    /\ list = NoCall
    /\ \E environ \in Environs, hasFile \in BOOLEAN, file \in ConfigFiles :
          /\ ~hasFile => file = << >>
          /\ fn = [pc |-> "in", environ |-> environ, hasFile |-> hasFile,
                   file |-> file, cfg |-> [f \in GitLabFields |-> ""]]

NextLoad == LoadApply

SpecLoad == InitLoad /\ [][NextLoad]_vars

\* C31: for each of the GitLab token, URL and project ID, a value set by
\* the environment variable wins over the value the configuration file
\* sets, and the file wins over the built-in default.
C31_EnvOverFile ==
    fn.pc = "out" =>
        \A f \in GitLabFields :
            /\ Getenv(fn.environ, envVarOf(f)) # "" =>
                  fn.cfg[f] = Getenv(fn.environ, envVarOf(f))
            /\ (Getenv(fn.environ, envVarOf(f)) = ""
                    /\ fn.hasFile /\ f \in DOMAIN fn.file) =>
                  fn.cfg[f] = ExpandEnv(fn.environ, fn.file[f])

\* GITLAB_TOKEN is set and the file sets token: the loaded token is the
\* file's.
C31_Witness ==
    /\ fn.pc = "out"
    /\ Getenv(fn.environ, "GITLAB_TOKEN") = "from-env"
    /\ fn.hasFile
    /\ "Token" \in DOMAIN fn.file
    /\ fn.file["Token"] = Literal("from-file")
    /\ fn.cfg["Token"] = "from-file"


----------------------------------------------------------------------------
(* Claims about the order and the targets of the changes of Diff *)

\* C32: the list Diff returns holds first one change per local entry, in
\* the order of the local entries, then the DELETE changes, in the order of
\* the scope-filtered remote list.  Diff reads its inputs as slices and its
\* index only by key, so the list is a function of the inputs.
C32_LocalOrderThenDeletes ==
    pc = "diffed" =>
        /\ Len(diff) = Len(local) + Len(deletesOfDiff)
        /\ \A i \in DOMAIN local :
              /\ diff[i].Key = local[i].Key
              /\ diff[i].Kind \in {ChangeCreate, ChangeUpdate, ChangeUnchanged}
              /\ diff[i].NewValue = local[i].Value
        /\ \A i \in (Len(local) + 1)..Len(diff) : diff[i].Kind = ChangeDelete
        /\ deletesOfDiff = IF opts.DeleteMissing THEN orphansOfRemote ELSE <<>>

\* A local entry and a remote-only record: the change of the local entry
\* comes first, the DELETE second.
C32_Witness ==
    /\ pc = "diffed"
    /\ Len(local) = 1
    /\ Len(diff) = 2
    /\ diff[1].Key = local[1].Key
    /\ diff[2].Kind = ChangeDelete
    /\ diff[2].Key # local[1].Key

exactRecords(k) == {j \in recordsFor(k) : remote[j].EnvironmentScope = envScope}

wildcardRecords(k) == {j \in recordsFor(k) : remote[j].EnvironmentScope = "*"}

\* C33: for a specific target scope, when the remote list holds a record of
\* exactly the target scope and a wildcard record for a local key, in either
\* order, the change of that key is an UPDATE or UNCHANGED that carries the
\* target scope and the value of an exact-scope record, and no change of
\* that key carries the wildcard scope.
C33_ExactScopeWins ==
    (pc = "diffed" /\ envScope \notin {"", "*"}) =>
        \A i \in DOMAIN local :
            LET k == local[i].Key IN
            (exactRecords(k) # {} /\ wildcardRecords(k) # {}) =>
                /\ diff[i].Kind \in {ChangeUpdate, ChangeUnchanged}
                /\ diff[i].envScope = envScope
                /\ \E j \in exactRecords(k) : diff[i].OldValue = remote[j].Value
                /\ \A d \in changesFor(k) : diff[d].envScope # "*"

\* The wildcard record comes after the exact-scope one, with another value,
\* and the change is made against the exact-scope record.
C33_Witness ==
    /\ pc = "diffed"
    /\ envScope = "production"
    /\ Len(local) = 1
    /\ Len(remote) = 2
    /\ remote[1].Key = local[1].Key
    /\ remote[2].Key = local[1].Key
    /\ remote[1].EnvironmentScope = "production"
    /\ remote[2].EnvironmentScope = "*"
    /\ remote[1].Value # remote[2].Value
    /\ diff[1].OldValue = remote[1].Value
    /\ diff[1].envScope = "production"

\* C34: for every target scope, the empty one included, a local key that
\* has a wildcard remote record never gets a CREATE: its change is UPDATE or
\* UNCHANGED.
C34_WildcardNeverCreated ==
    pc = "diffed" =>
        \A i \in DOMAIN local :
            wildcardRecords(local[i].Key) # {} =>
                diff[i].Kind \in {ChangeUpdate, ChangeUnchanged}

\* The same statement for the non-empty target scopes.
C34_NonEmptyTarget ==
    (pc = "diffed" /\ envScope # "") =>
        \A i \in DOMAIN local :
            wildcardRecords(local[i].Key) # {} =>
                diff[i].Kind \in {ChangeUpdate, ChangeUnchanged}

\* Empty target scope, a wildcard record and a "production" record of the
\* local key: the change is a CREATE.
C34_Witness ==
    /\ pc = "diffed"
    /\ envScope = ""
    /\ Len(local) = 1
    /\ wildcardRecords(local[1].Key) # {}
    /\ \E j \in recordsFor(local[1].Key) : remote[j].EnvironmentScope = "production"
    /\ diff[1].Kind = ChangeCreate
    /\ diff[1].envScope = ""


----------------------------------------------------------------------------
(* Claims about the records of other scopes *)

\* the records of a specific scope other than the target
otherScope(rv) == rv.EnvironmentScope \notin {envScope, "*"}

countIn(s, rv) == Cardinality({i \in DOMAIN s : s[i] = rv})

\* C35: for a non-empty target scope T, every change Diff emits carries the
\* scope T or "*", and from Diff to the return of Apply the records of the
\* store whose scope is a specific scope other than T are the ones that were
\* listed: none is created, updated or deleted, with or without
\* DeleteMissing.
C35_OtherScopesUntouched ==
    (pc \in {"diffed", "collect", "returned"} /\ envScope # "") =>
        /\ \A d \in DOMAIN diff : diff[d].envScope \in {envScope, "*"}
        /\ \A j \in DOMAIN remote :
              otherScope(remote[j]) =>
                  countIn(store, remote[j]) = countIn(remote, remote[j])
        /\ \A i \in DOMAIN store :
              otherScope(store[i]) =>
                  countIn(remote, store[i]) = countIn(store, store[i])
        /\ \A d \in DOMAIN calls : \A n \in DOMAIN calls[d] :
              calls[d][n].req.EnvironmentScope \in {envScope, "*"}

\* Target "*" with DeleteMissing, a remote-only "production" record and a
\* wildcard record that was deleted: the "production" record is still there.
C35_Witness ==
    /\ pc = "returned"
    /\ envScope = "*"
    /\ opts.DeleteMissing
    /\ report.Deleted = 1
    /\ \E j \in DOMAIN remote :
          /\ remote[j].EnvironmentScope = "production"
          /\ remote[j].Key \notin localKeySet
          /\ \E i \in DOMAIN store : store[i] = remote[j]


----------------------------------------------------------------------------
(* Claims about the rate limiter in Client.Do *)

\* the HTTP requests issued so far: those that returned and the one in flight
issued == Len(do.outcomes) + (IF do.pc = "http" THEN 1 ELSE 0)

\* C36: in every Do call the number of successful limiter acquisitions
\* equals the number of HTTP requests issued, at every moment: each attempt
\* acquires once before its request, a retry acquires again, and no request
\* goes out without an acquisition.
C36_AcquirePerAttempt ==
    do.pc \in {"wait", "http", "sleep", "done"} =>
        /\ do.acquired = issued
        /\ do.requests = do.acquired
        /\ do.pc \in {"http", "sleep"} => do.acquired = do.attempt + 1
        /\ do.pc = "wait" => do.acquired = do.attempt

\* One logical call that took three attempts and three acquisitions.
C36_Witness ==
    /\ do.pc = "done"
    /\ do.err = "nil"
    /\ Len(do.outcomes) = 3
    /\ do.acquired = 3


----------------------------------------------------------------------------
(* pkg/gitlab: Client.backoff in 64-bit arithmetic, specification SpecBackoff *)

\* A time.Duration is an int64 of nanoseconds.  It is held as 8 limbs of 8
\* bits, least significant first, in two's complement; the arithmetic wraps
\* as Go's does.  The same operators on 12 limbs compute without wrapping,
\* every value of the model being below 2^96.
Limb == 256

Int64Limbs == 8

WideLimbs == 12

\* the limbs of a small natural number
RECURSIVE limbsOf(_, _)
limbsOf(x, n) ==
    IF n = 0 THEN <<>> ELSE <<x % Limb>> \o limbsOf(x \div Limb, n - 1)

RECURSIVE pow2(_)
pow2(k) == IF k = 0 THEN 1 ELSE 2 * pow2(k - 1)

\* 1 << k
shiftOne(k, n) ==
    [i \in 1..n |-> IF i = (k \div 8) + 1 THEN pow2(k % 8) ELSE 0]

\* a + b, wrapping at Len(a) limbs
RECURSIVE addFrom(_, _, _, _)
addFrom(a, b, i, carry) ==
    IF i > Len(a) THEN <<>>
    ELSE LET s == a[i] + b[i] + carry
         IN <<s % Limb>> \o addFrom(a, b, i + 1, s \div Limb)

add(a, b) == addFrom(a, b, 1, 0)

\* a * b, wrapping at Len(a) limbs
RECURSIVE columnSum(_, _, _, _)
columnSum(a, b, k, i) ==
    IF i > k THEN 0 ELSE a[i] * b[k + 1 - i] + columnSum(a, b, k, i + 1)

RECURSIVE mulFrom(_, _, _, _)
mulFrom(a, b, k, carry) ==
    IF k > Len(a) THEN <<>>
    ELSE LET s == columnSum(a, b, k, 1) + carry
         IN <<s % Limb>> \o mulFrom(a, b, k + 1, s \div Limb)

mul(a, b) == mulFrom(a, b, 1, 0)

\* unsigned a < b, from the most significant limb down
RECURSIVE lessFrom(_, _, _)
lessFrom(a, b, i) ==
    IF i = 0 THEN FALSE
    ELSE IF a[i] # b[i] THEN a[i] < b[i]
    ELSE lessFrom(a, b, i - 1)

lessUnsigned(a, b) == lessFrom(a, b, Len(a))

\* the sign bit of an int64
negative(a) == a[Len(a)] >= Limb \div 2

\* signed a < b
less(a, b) ==
    IF negative(a) # negative(b) THEN negative(a) ELSE lessUnsigned(a, b)

\* a value that is not negative, on n limbs
widen(a, n) == [i \in 1..n |-> IF i <= Len(a) THEN a[i] ELSE 0]

Nanosecond(n) == limbsOf(1, n)

Millisecond(n) == limbsOf(1000000, n)

Second(n) == limbsOf(1000000000, n)

Minute(n) == mul(limbsOf(60, n), Second(n))

maxBackoffOn(n) == mul(limbsOf(5, n), Minute(n))

maxBackoff == maxBackoffOn(Int64Limbs)

\* int64(500 * time.Millisecond), the bound of the jitter
jitterBound == 500000000

attemptCap == 30

\* c.backoff(attempt, extra) with c.cfg.RetryInitialBackoff = initialBackoff
\* and rand.Int64N returning jitter
backoff(initialBackoff, attempt, extra, jitter) ==
    LET att == IF attempt > attemptCap THEN attemptCap ELSE attempt
        exp == shiftOne(att, Int64Limbs)
        base == IF less(maxBackoff, initialBackoff) THEN maxBackoff
                ELSE initialBackoff
        d0 == add(mul(base, exp), extra)
        d == IF less(maxBackoff, d0) \/ negative(d0) THEN maxBackoff ELSE d0
        result == add(d, limbsOf(jitter, Int64Limbs))
    IN IF less(maxBackoff, result) THEN maxBackoff ELSE result

MaxAttempt == 32

\* Initial backoffs: 1ms, 1s, 2^33 ns, 2^34 ns (17.179869184s), a little
\* above it, 2^35 ns, 5 minutes, 10 minutes, 2^62 ns.
InitialBackoffs ==
    {Millisecond(Int64Limbs), Second(Int64Limbs),
     shiftOne(33, Int64Limbs), shiftOne(34, Int64Limbs),
     add(shiftOne(34, Int64Limbs), limbsOf(279, Int64Limbs)),
     shiftOne(35, Int64Limbs), maxBackoff,
     add(maxBackoff, maxBackoff), shiftOne(62, Int64Limbs)}

Extras == {limbsOf(0, Int64Limbs), Second(Int64Limbs), maxBackoff}

Jitters == {0, 1, jitterBound - 1}

BackoffApply ==
    /\ fn.pc = "in"
    /\ \E jitter \in Jitters :
          fn' = [fn EXCEPT !.pc = "out", !.jitter = jitter,
                    !.result = backoff(fn.initialBackoff, fn.attempt, fn.extra, jitter)]
    /\ UNCHANGED <<syncVars, do, list>>

InitBackoff ==
    /\ noSync
    /\ do = NoCall
    /\ list = NoCall
    /\ \E b \in InitialBackoffs, attempt \in 0..MaxAttempt, extra \in Extras :
          fn = [pc |-> "in", initialBackoff |-> b, attempt |-> attempt,
                extra |-> extra, jitter |-> 0, result |-> limbsOf(0, Int64Limbs)]

NextBackoff == BackoffApply

SpecBackoff == InitBackoff /\ [][NextBackoff]_vars

\* min(5 minutes, initialBackoff * 2^min(attempt, 30) + more), without wrapping
cappedExact(more) ==
    LET att == IF fn.attempt > 30 THEN 30 ELSE fn.attempt
        x == add(mul(widen(fn.initialBackoff, WideLimbs), shiftOne(att, WideLimbs)),
                 more)
    IN IF lessUnsigned(maxBackoffOn(WideLimbs), x) THEN maxBackoffOn(WideLimbs) ELSE x

\* C37: backoff(attempt, extra) equals min(5 minutes, initialBackoff *
\* 2^min(attempt, 30) + jitter + extra) as computed without overflow; it is
\* never negative, never above 5 minutes and never below min(5 minutes,
\* initialBackoff * 2^min(attempt, 30)).
C37_BackoffExact ==
    fn.pc = "out" =>
        /\ ~negative(fn.result)
        /\ ~less(maxBackoff, fn.result)
        /\ widen(fn.result, WideLimbs) =
              cappedExact(add(limbsOf(fn.jitter, WideLimbs),
                              widen(fn.extra, WideLimbs)))
        /\ ~lessUnsigned(widen(fn.result, WideLimbs),
                         cappedExact(limbsOf(0, WideLimbs)))

\* The same statement for the inputs whose product initialBackoff * 2^attempt
\* stays below 2^63.
C37_WithoutWrap ==
    (fn.pc = "out"
        /\ LET att == IF fn.attempt > 30 THEN 30 ELSE fn.attempt
               b == IF less(maxBackoff, fn.initialBackoff) THEN maxBackoff
                    ELSE fn.initialBackoff
           IN lessUnsigned(mul(widen(b, WideLimbs), shiftOne(att, WideLimbs)),
                           shiftOne(63, WideLimbs))) =>
        /\ ~negative(fn.result)
        /\ ~less(maxBackoff, fn.result)
        /\ widen(fn.result, WideLimbs) =
              cappedExact(add(limbsOf(fn.jitter, WideLimbs),
                              widen(fn.extra, WideLimbs)))

\* Initial backoff 2^34 ns, attempt 30, no extra: the product wraps to zero
\* and the result is the jitter alone.
C37_Witness ==
    /\ fn.pc = "out"
    /\ fn.initialBackoff = shiftOne(34, Int64Limbs)
    /\ fn.attempt = 30
    /\ fn.extra = limbsOf(0, Int64Limbs)
    /\ fn.result = limbsOf(fn.jitter, Int64Limbs)
    /\ less(fn.result, Second(Int64Limbs))


----------------------------------------------------------------------------
(* Claims about a server whose next page does not advance *)

\* the last answer was a page whose X-Next-Page header is a number that is
\* not below the page just fetched, so neither absent nor "0"
nextNotDecreasing ==
    /\ list.resp.kind = "page"
    /\ Atoi(list.resp.next).ok
    /\ Atoi(list.resp.next).n >= list.fetched

\* C38: when the server answers every request with a next page that is not
\* below the page just fetched, a next page equal to it included,
\* ListVariables returns an error and no list.
C38_StalledPaginationFails ==
    (list.pc = "done" /\ nextNotDecreasing) =>
        list.err # "nil" /\ list.returned = "nil"

\* The same statement for a next page above the page just fetched.
C38_Increasing ==
    (list.pc = "done" /\ nextNotDecreasing
        /\ Atoi(list.resp.next).n > list.fetched) =>
        list.err = "exceeded" /\ list.returned = "nil"

\* The first answer names page 1 as the page after page 1: the call returns
\* the variables of that page and no error.
C38_Witness ==
    /\ list.pc = "done"
    /\ list.requests = 1
    /\ list.fetched = 1
    /\ list.resp.kind = "page"
    /\ list.resp.next = <<"1">>
    /\ list.err = "nil"
    /\ list.returned = "all"


----------------------------------------------------------------------------
(* Claims about the result channel *)

\* C39: no worker ever blocks when it emits a Result: whenever a worker is
\* about to send, the result channel, whose capacity is the number of
\* actionable changes, has room, however slow the collector is; and the
\* result channel is closed only after every worker has exited.
C39_SendNeverBlocks ==
    pc = "collect" =>
        /\ Len(resultCh) <= Len(actionable)
        /\ \A w \in Workers :
              wk[w].pc = "send" => Len(resultCh) < Len(actionable)
        /\ resultClosed => \A w \in Workers : wk[w].pc = "exit"

\* The collector has taken nothing yet, one result is in the channel and a
\* worker is about to send the second.
C39_Witness ==
    /\ pc = "collect"
    /\ Len(actionable) = 2
    /\ Len(resultCh) = 1
    /\ report.Failed + succeeded = 0
    /\ \E w \in Workers : wk[w].pc = "send"


----------------------------------------------------------------------------
(* cmd/glenv: SyncCommand.syncOne with its confirmation: specification SpecSync *)

AnswerY == <<"y">>
AnswerYes == <<"y","e","s">>

\* confirm that takes the end of standard input for a yes.
confirmDefaultYes(in, scanned) ==
    IF scanned < Len(in.lines)
    THEN LET ans == TrimSpace(ToLower(in.lines[scanned + 1]))
         IN  ans = AnswerY \/ ans = AnswerYes
    ELSE TRUE

\* confirm: stdinScanner.Scan() yields the next line of standard input if
\* there is one; at the end of the input, or when reading fails, the answer
\* is no.
confirm(in, scanned) ==
    IF scanned < Len(in.lines)
    THEN LET ans == TrimSpace(ToLower(in.lines[scanned + 1]))
         IN  ans = AnswerY \/ ans = AnswerYes
    ELSE FALSE

\* The loop of syncOne that counts the DELETE changes of the diff.
deleteCount(d) == CountKind(d, ChangeDelete)

\* syncOne up to printDiff.
SyncDiff == syncDiff("init", "printed")

\* syncOne between printDiff and ApplyWithCallback: a dry run returns, and a
\* run that would delete asks first unless --force is given.
SyncGate ==
    /\ pc = "printed"
    /\ IF opts.DryRun
       THEN /\ pc' = "dryrun"
            /\ cmd' = cmd
       ELSE IF opts.DeleteMissing /\ ~cmd.Force /\ deleteCount(diff) > 0
       THEN /\ cmd' = [cmd EXCEPT
                         !.scanned = IF @ < Len(cmd.stdin.lines) THEN @ + 1 ELSE @]
            /\ pc' = IF confirm(cmd.stdin, cmd.scanned) THEN "diffed" ELSE "aborted"
       ELSE /\ pc' = "diffed"
            /\ cmd' = cmd
    /\ UNCHANGED <<do, list, fn, cb, local, remote, envScope, opts, cfg, store, diff,
                   ctxDone, report, actionable, taskCh, resultCh, resultClosed,
                   wg, wk, calls, late>>

\* What standard input can hold: answers, none (end of file), a failing read.
StdinLines ==
    {<<"y">>, <<"Y">>, <<" ","Y","e","s"," ">>, <<"n">>, <<>>, <<"y","y">>}

Stdins ==
    {[lines |-> ls, err |-> e] :
        ls \in {<<>>} \cup {<<l>> : l \in StdinLines}, e \in BOOLEAN}

\* Any store, a file of at most one variable, any flags and any standard input.
InitSync ==
    /\ local \in {s \in LocalLists : Len(s) <= 1}
    /\ store \in remoteLists({PlainMeta})
    /\ envScope \in SyncScopes
    /\ cfg = DefaultCfg
    /\ \E dm \in BOOLEAN, dry \in BOOLEAN :
          opts = NewEngine([Workers |-> MaxWorkers, DryRun |-> dry,
                            DeleteMissing |-> dm])
    /\ \E force \in BOOLEAN, in \in Stdins :
          cmd = [pc |-> "syncOne", Force |-> force, stdin |-> in, scanned |-> 0]
    /\ diff = <<>>
    /\ pc = "init"
    /\ cb = [NoCallback EXCEPT !.registered = TRUE]
    /\ remote = <<>>
    /\ ctxDone = FALSE
    /\ report = ZeroReport
    /\ actionable = <<>>
    /\ taskCh = <<>>
    /\ resultCh = <<>>
    /\ resultClosed = FALSE
    /\ wg = 0
    /\ wk = <<>>
    /\ calls = <<>>
    /\ late = {}
    /\ do = NoCall
    /\ list = NoCall
    /\ fn = NoCall

NextSync ==
    \/ SyncDiff
    \/ SyncGate
    \/ ApplyStart
    \/ \E w \in Workers : WorkerRecv(w)
    \/ \E w \in Workers : WorkerExit(w)
    \/ \E w \in Workers : WorkerDispatch(w)
    \/ \E w \in Workers : StoreReturn(w)
    \/ \E w \in Workers : WorkerSend(w)
    \/ Joiner
    \/ Collect
    \/ ApplyReturn

SpecSync == InitSync /\ [][NextSync]_vars

\* The user answered the first prompt with y or yes.
answeredYes ==
    /\ cmd.stdin.lines # <<>>
    /\ LET ans == TrimSpace(ToLower(cmd.stdin.lines[1]))
       IN  ans \in {AnswerY, AnswerYes}

noCallIssued ==
    /\ \A i \in DOMAIN calls : calls[i] = <<>>
    /\ store = remote

\* C40: in a sync with --delete-missing and without --force, once the diff
\* holds at least one DELETE and the confirmation is not given (the answer,
\* trimmed and in lower case, is neither y nor yes, or standard input is at
\* its end), no create, update or delete call is issued to the store.
C40_DeclinedIssuesNothing ==
    (/\ pc # "init"
     /\ opts.DeleteMissing
     /\ ~cmd.Force
     /\ deleteCount(diff) > 0
     /\ ~answeredYes) => noCallIssued

\* Standard input is at its end and the run was given up with a DELETE in the diff.
C40_Witness ==
    /\ pc = "aborted"
    /\ ~opts.DryRun
    /\ opts.DeleteMissing
    /\ ~cmd.Force
    /\ deleteCount(diff) > 0
    /\ cmd.stdin.lines = <<>>

====
